---- MODULE Spec2Model ----
(***************************************************************************)
(* A model of the orchestration, telemetry and reactive-control core of    *)
(* the Clawdbot repository: the message metadata store, the reaction       *)
(* controller, the user prompt handler, the session store and the          *)
(* execution dispatcher.                                                   *)
(*                                                                         *)
(* JavaScript objects are functions from field names to values; a field    *)
(* that is not in the DOMAIN of the function is `undefined`.  Rendered     *)
(* message texts are sequences of tokens (tuples), so that two texts are   *)
(* equal exactly when they were built from the same parts in the same      *)
(* order.                                                                  *)
(***************************************************************************)
EXTENDS Integers, Sequences, FiniteSets, TLC

(***************************************************************************)
(* Bounds of the model.                                                    *)
(***************************************************************************)
MaxTicks == 2
MaxMsgs == 1
MaxPipes == 2
MaxChats == 1
MaxSaves == 2
MaxExch == 2
MaxRestarts == 1
MaxCalls == 3
MaxWords == 2
BodyLength == 40
MaxAppends == 3
MaxMarks == 3
MaxClock == 3

(***************************************************************************)
(* Program constants.                                                      *)
(***************************************************************************)
defaultRetentionMs == 3600000
cleanupIntervalMs == 3600000
BotCleanupAgeMs == 3600000
SessionRetentionMs == 3600000
defaultTimeout == 300000

VARIABLES
  now,             \* Date.now()
  ticks,           \* number of clock advances so far
  messages,        \* MessageMetadataStore.messages : id -> record
  pendingPrompts,  \* UserPromptHandler.pendingPrompts : id -> prompt data
  promptFlight,    \* id -> chat, for each promptUser suspended at setMessageReaction
  nextId,          \* next message id the platform assigns
  display,         \* platform side: id -> text the chat shows for the message
  pipes,           \* handleReaction pipelines in flight
  last,            \* summary of the handleReaction call that returned last
  window,          \* id -> what the last store(id, ...) promised (t0, retention) and
                   \* the verbosity level the displayed content was last rendered at
  selected,        \* id -> number of times handleResponse returned an option
  sessionsCache,   \* session store: key -> session data
  userSessions,    \* the bot's Map chatId -> ChatSession
  exch,            \* sendMessage calls suspended at `await orchestrate`
  nextExch,        \* number of the next exchange
  primaryFile,     \* the session file
  backupFile,      \* the backup of the session file
  saves,           \* saveSessions calls in flight
  savesDone,       \* number of saveSessions calls that returned (up to 2)
  restarts,        \* number of restarts so far
  expected,        \* chat -> what the session file held for it at the last restart
  restored,        \* chat -> the session createSession returned since the last restart
  replies,         \* chat -> where the /clear handler of the chat stands
  phase,           \* the bot process: "loading" (init awaited), "polling" or "exited"
  lastInit,        \* what the last sessionStore.init() met and returned
  call,            \* the orchestrate call in progress or just finished
  calls,           \* number of orchestrate calls so far
  text,            \* the characters of the text being composed
  padding,         \* number of further characters of the text
  words,           \* number of words composed so far
  routed,          \* what orchestrate's steps 1 and 2 returned for the text
  drawn,           \* a stored record given to formatResponseWithVerbosity
  rendered,        \* verbosity -> what formatResponseWithVerbosity returned for it
  hist,            \* ChatSession.history of one session
  outbox,          \* the messages array of the last request sent to the model backend
  appended,        \* number of sendMessage calls so far
  pending,         \* the sendMessage calls suspended at `await orchestrate`
  updateReturned,  \* what the last direct update(messageId, updates) returned
  timings,         \* MetricsCollector.timings: checkpoint -> null or the time marked
  clock,           \* Date.now() as the collector's caller sees it
  markLog,         \* the mark(event) calls made so far, with their times
  breakdown,       \* what the last getBreakdown() returned
  lastActive       \* chat -> the lastActive time of its last setSession (0: none)

metaVars == <<now, ticks, messages, pendingPrompts, promptFlight, nextId,
              display, pipes, last, window, selected>>

sessVars == <<lastActive, sessionsCache, userSessions, exch, nextExch, primaryFile, backupFile,
              saves, savesDone, restarts, expected, restored, replies, phase, lastInit>>
lifeVars == <<phase, lastInit>>

dispVars == <<call, calls>>

routeVars == <<text, padding, words, routed>>

renderVars == <<drawn, rendered>>

requestVars == <<hist, outbox, appended, pending>>
callerVars == <<updateReturned>>
collectorVars == <<timings, clock, markLog, breakdown>>

vars == <<metaVars, sessVars, dispVars, routeVars, renderVars, requestVars, callerVars, collectorVars>>
notMeta == <<sessVars, dispVars, routeVars, renderVars, requestVars, callerVars, collectorVars>>
notSess == <<metaVars, dispVars, routeVars, renderVars, requestVars, callerVars, collectorVars>>
notDisp == <<metaVars, sessVars, routeVars, renderVars, requestVars, callerVars, collectorVars>>
notRoute == <<metaVars, sessVars, dispVars, renderVars, requestVars, callerVars, collectorVars>>
notRender == <<metaVars, sessVars, dispVars, routeVars, requestVars, callerVars, collectorVars>>
notCollector == <<metaVars, sessVars, dispVars, routeVars, renderVars, requestVars,
                  callerVars>>
notRequest == <<metaVars, sessVars, dispVars, routeVars, renderVars, callerVars, collectorVars>>


(***************************************************************************)
(* Small helpers for JavaScript values.                                    *)
(***************************************************************************)
MsgIds == 1..MaxMsgs
PipeIds == 1..MaxPipes
Chats == {1, 2}

Has(obj, f) == f \in DOMAIN obj
Field(obj, f, dflt) == IF f \in DOMAIN obj THEN obj[f] ELSE dflt
\* truthiness of a string-valued field ("undefined" stands for a missing value)
Truthy(s) == s \notin {"undefined", ""}
\* { ...a, ...b }: the fields of b win
Spread(a, b) == b @@ a
Remove(map, k) == [x \in DOMAIN map \ {k} |-> map[x]]
Put(map, k, v) == [x \in DOMAIN map \cup {k} |-> IF x = k THEN v ELSE map[x]]

NoMetrics == [present |-> FALSE, total |-> 0, segs |-> 0]
NoMeta == [type |-> "none"]

(***************************************************************************)
(* emoji-mappings.js                                                       *)
(***************************************************************************)
VerbosityEmojis == {"MINIMAL", "MEDIUM", "FULL"}
ActionEmojis == {"RETRY_SMART", "EXPLAIN", "METRICS", "YES", "NO", "REFRESH"}
\* "NONE" is a new_reaction that is not of type 'emoji'
Emojis == VerbosityEmojis \cup ActionEmojis \cup {"NONE"}

isVerbosityEmoji(emoji) == emoji \in VerbosityEmojis

getVerbosityFromEmoji(emoji) ==
  CASE emoji = "MINIMAL" -> "minimal"
    [] emoji = "MEDIUM" -> "medium"
    [] emoji = "FULL" -> "full"
    [] OTHER -> "null"

getModelEmoji(modelName) ==
  IF ~Truthy(modelName) THEN "DEFAULT"
  ELSE IF modelName = "Haiku (Fast)" THEN "HA"
  ELSE IF modelName = "Sonnet (Smart)" THEN "SONNET"
  ELSE "DEFAULT"

\* reactions that include the current level
getReactionsForAllLevels(currentVerbosity) == <<"MINIMAL", "MEDIUM", "FULL">>

getReactionsForVerbosity(currentVerbosity) ==
  (IF currentVerbosity # "minimal" THEN <<"MINIMAL">> ELSE <<>>)
  \o (IF currentVerbosity # "medium" THEN <<"MEDIUM">> ELSE <<>>)
  \o (IF currentVerbosity # "full" THEN <<"FULL">> ELSE <<>>)

(***************************************************************************)
(* reaction-handler.js: rendering                                          *)
(***************************************************************************)
formatMetricsDetails(metricsData) ==
  <<<<"timing-title">>>>
  \o (IF metricsData.total # 0 THEN <<<<"timing-total", ToString(metricsData.total)>>>> ELSE <<>>)
  \o [i \in 1..metricsData.segs |-> <<"timing-segment", ToString(i)>>]

\* a rendering without the reactions hint of the full level
formatResponseWithoutHint(responseText, skill, model, metricsData, verbosity) ==
  LET header ==
        IF verbosity = "full" /\ Truthy(skill) /\ Truthy(model)
          THEN <<<<"header-full", getModelEmoji(model), model, skill>>>>
        ELSE IF verbosity = "medium" /\ Truthy(model)
          THEN <<<<"header-medium", getModelEmoji(model), model>>>>
               \o (IF Truthy(skill) THEN <<<<"header-skill", skill>>>> ELSE <<>>)
               \o <<<<"blank-line">>>>
        ELSE <<>>
      timing ==
        IF verbosity = "full" /\ metricsData.present
          THEN formatMetricsDetails(metricsData) \o <<<<"blank-line">>>>
        ELSE IF verbosity = "medium" /\ metricsData.present
          THEN <<<<"timing-line", ToString(metricsData.total)>>>>
        ELSE <<>>
  IN header \o timing \o responseText

formatResponseWithVerbosity(responseText, skill, model, metricsData, verbosity) ==
  LET header ==
        IF verbosity = "full" /\ Truthy(skill) /\ Truthy(model)
          THEN <<<<"header-full", getModelEmoji(model), model, skill>>>>
        ELSE IF verbosity = "medium" /\ Truthy(model)
          THEN <<<<"header-medium", getModelEmoji(model), model>>>>
               \o (IF Truthy(skill) THEN <<<<"header-skill", skill>>>> ELSE <<>>)
               \o <<<<"blank-line">>>>
        ELSE <<>>
      timing ==
        IF verbosity = "full" /\ metricsData.present
          THEN formatMetricsDetails(metricsData) \o <<<<"blank-line">>>>
        ELSE IF verbosity = "medium" /\ metricsData.present
          THEN <<<<"timing-line", ToString(metricsData.total)>>>>
        ELSE <<>>
      hint == IF verbosity = "full" THEN <<<<"reactions-hint">>>> ELSE <<>>
  IN header \o timing \o responseText \o hint

\* String.prototype.length of the strings the renderings are made of, in
\* UTF-16 code units
NameLengths ==
  [s \in {"Haiku (Fast)", "Sonnet (Smart)", "pr-review", "web-search", "undefined", "N/A"} |->
     CASE s = "Haiku (Fast)" -> 12
       [] s = "Sonnet (Smart)" -> 14
       [] s = "pr-review" -> 9
       [] s = "web-search" -> 10
       [] s = "undefined" -> 9
       [] s = "N/A" -> 3]
EmojiLengths == [HA |-> 1, SONNET |-> 2, DEFAULT |-> 2]
SegmentLabelLengths == <<15, 14, 15, 15, 15, 8, 10>>
Numerals == {0, 1, 2, 3, 4, 5, 6, 7, 1200}

RECURSIVE Digits(_)
Digits(n) == IF n < 10 THEN 1 ELSE 1 + Digits(n \div 10)

StringLength(s) ==
  IF s \in DOMAIN NameLengths THEN NameLengths[s]
  ELSE Digits(CHOOSE n \in Numerals : ToString(n) = s)

\* the length of one piece of a rendering, from the template that produces it
PieceLength(piece) ==
  CASE piece[1] = "header-full" ->
         EmojiLengths[piece[2]] + StringLength(piece[3]) + StringLength(piece[4]) + 17
    [] piece[1] = "header-medium" -> EmojiLengths[piece[2]] + 1 + StringLength(piece[3])
    [] piece[1] = "header-skill" -> 3 + StringLength(piece[2])
    [] piece[1] = "blank-line" -> 2
    [] piece[1] = "timing-line" -> 7 + StringLength(piece[2])
    [] piece[1] = "timing-title" -> 24
    [] piece[1] = "timing-total" -> 10 + StringLength(piece[2])
    [] piece[1] = "timing-segment" ->
         8 + SegmentLabelLengths[CHOOSE n \in 1..7 : ToString(n) = piece[2]]
           + StringLength(piece[2])
    [] piece[1] = "reactions-hint" -> 77
    [] piece[1] = "sent-header" ->
         EmojiLengths[piece[2]] + 1 + StringLength(piece[3])
           + (IF Truthy(piece[4]) THEN 3 + StringLength(piece[4]) ELSE 0)
           + 3 + StringLength(piece[5]) + 4
    [] piece[1] = "body" -> BodyLength
    [] piece[1] = "undefined" -> 9

\* String.prototype.length of a rendering
RECURSIVE TextLength(_)
TextLength(t) == IF t = <<>> THEN 0 ELSE PieceLength(Head(t)) + TextLength(Tail(t))

(***************************************************************************)
(* part_008, formatOrchestratorResult(result, metrics, 'medium'): a        *)
(* one-line header when the result names a model, then the result's output *)
(***************************************************************************)
formatOrchestratorResult(skill, model, metricsData, output) ==
  (IF Truthy(model)
     THEN <<<<"sent-header", getModelEmoji(model), model, skill,
              IF metricsData.present /\ metricsData.total # 0
                THEN ToString(metricsData.total) ELSE "N/A">>>>
     ELSE <<>>)
  \o output

(***************************************************************************)
(* metrics-collector.js: MessageMetadataStore                              *)
(***************************************************************************)
\* store(messageId, metadata) at time t
store(msgs, messageId, metadata, t) ==
  IF messageId = 0 THEN msgs
  ELSE LET retention == IF Field(metadata, "retentionMs", 0) # 0
                          THEN metadata.retentionMs ELSE defaultRetentionMs
           record == Spread(metadata, [createdAt |-> t, expiresAt |-> t + retention])
       IN Put(msgs, messageId, record)

\* a get that does not look at expiresAt
getIgnoringExpiry(msgs, messageId, t) ==
  IF messageId \notin DOMAIN msgs THEN NoMeta ELSE msgs[messageId]

\* the value get(messageId) returns at time t (NoMeta stands for null)
get(msgs, messageId, t) ==
  IF messageId \notin DOMAIN msgs THEN NoMeta
  ELSE IF t > msgs[messageId].expiresAt THEN NoMeta
  ELSE msgs[messageId]

\* the map get(messageId) leaves behind: an expired record is deleted
getEvict(msgs, messageId, t) ==
  IF messageId \in DOMAIN msgs /\ t > msgs[messageId].expiresAt
    THEN Remove(msgs, messageId)
    ELSE msgs

\* an update that also extends the record's life by the default retention
updateExtendingExpiry(msgs, messageId, updates) ==
  IF messageId \notin DOMAIN msgs THEN msgs
  ELSE LET record == msgs[messageId]
       IN Put(msgs, messageId,
              Spread(Spread(record, updates),
                     [createdAt |-> record.createdAt,
                      expiresAt |-> record.expiresAt + defaultRetentionMs]))

\* an update that lets the partial's fields win, timestamps included
updateOverwriting(msgs, messageId, updates) ==
  IF messageId \notin DOMAIN msgs THEN msgs
  ELSE Put(msgs, messageId, Spread(msgs[messageId], updates))

\* update(messageId, updates)
update(msgs, messageId, updates) ==
  IF messageId \notin DOMAIN msgs THEN msgs
  ELSE LET record == msgs[messageId]
       IN Put(msgs, messageId,
              Spread(Spread(record, updates),
                     [createdAt |-> record.createdAt, expiresAt |-> record.expiresAt]))

\* a cleanup that looks at the age of a record only
cleanupByAgeOnly(msgs, olderThanMs, t) ==
  LET threshold == IF olderThanMs # 0 THEN olderThanMs ELSE defaultRetentionMs
      gone == { id \in DOMAIN msgs : t - msgs[id].createdAt > threshold }
  IN [id \in DOMAIN msgs \ gone |-> msgs[id]]

\* cleanup(olderThanMs) at time t; 0 stands for the null default
cleanup(msgs, olderThanMs, t) ==
  LET threshold == IF olderThanMs # 0 THEN olderThanMs ELSE defaultRetentionMs
      gone == { id \in DOMAIN msgs :
                  t - msgs[id].createdAt > threshold \/ t > msgs[id].expiresAt }
  IN [id \in DOMAIN msgs \ gone |-> msgs[id]]

(***************************************************************************)
(* The records the callers store.                                          *)
(***************************************************************************)
\* part_008, message handler: the record stored for a sent bot response
BotResponseMetadata(chatId, responseText, skill, model, metricsData) ==
  [chatId |-> chatId, originalMessage |-> "message", responseText |-> responseText,
   skill |-> skill, model |-> model, metrics |-> metricsData,
   verbosity |-> "medium", type |-> "bot-response"]

\* user-prompt-handler.js, promptUser: the record stored for a prompt
PromptMetadata(chatId) == [chatId |-> chatId, type |-> "user-prompt"]

(***************************************************************************)
(* reaction-handler.js: the partial records the handlers pass to update    *)
(***************************************************************************)
\* an update that also keeps the rendered text as the record's response text
VerbosityUpdatesWithText(newVerbosity, newText) ==
  [verbosity |-> newVerbosity, responseText |-> newText]

\* changeVerbosity: metadataStore.update(messageId, { verbosity: newVerbosity })
VerbosityUpdates(newVerbosity, newText) == [verbosity |-> newVerbosity]

\* retryWithSmartModel: { pendingRetry: true, forceModel: 'smart' }
RetryUpdates == [pendingRetry |-> TRUE, forceModel |-> "smart"]

\* handleUserFeedback: { userFeedback: emoji }
FeedbackUpdates(emoji) == [userFeedback |-> emoji]

\* changeVerbosity: the text handed to bot.editMessageText
RenderFor(metadata, newVerbosity) ==
  formatResponseWithVerbosity(
    IF Has(metadata, "originalResponse") THEN metadata.originalResponse
    ELSE Field(metadata, "responseText", <<<<"undefined">>>>),
    Field(metadata, "skill", "undefined"),
    Field(metadata, "model", "undefined"),
    Field(metadata, "metrics", NoMetrics),
    newVerbosity)

\* retryWithSmartModel: model && model.toLowerCase().includes('sonnet')
AlreadySmart(metadata) == Field(metadata, "model", "undefined") = "Sonnet (Smart)"



(***************************************************************************)
(* State of one handleReaction pipeline.                                   *)
(***************************************************************************)
IdlePipe ==
  [pc |-> "idle", msg |-> 0, emoji |-> "NONE", text |-> <<>>, verbAfter |-> "n/a",
   offered |-> <<>>, sends |-> 0]

\* what is remembered of the last reaction event: was a record found for it, and
\* did handleReaction reach a handler (a platform call) for it
NoSummary == [handled |-> FALSE, found |-> FALSE, called |-> FALSE, rejected |-> FALSE]

\* a new pipeline takes the lowest free slot
Free(k) == pipes[k].pc = "idle" /\ \A j \in 1..(k - 1) : pipes[j].pc # "idle"

\* what the claims call an active record: present and not past its expiry
Active(m) == m \in DOMAIN messages /\ now <= messages[m].expiresAt

NoWindow == [set |-> FALSE, t0 |-> 0, retention |-> 0, level |-> "none"]

(***************************************************************************)
(* Inputs.                                                                 *)
(***************************************************************************)
\* retentionMs given to store
RetentionChoices == {defaultRetentionMs \div 2, 2 * defaultRetentionMs}
\* context.timeout given to promptUser: 0 is "not given"
TimeoutChoices == {0, 2 * defaultRetentionMs}
\* (skill, model) of an orchestrator result: both set, or both missing on failure
ResultChoices == { <<"pr-review", "Sonnet (Smart)">>, <<"undefined", "undefined">> }
MetricsChoices == { [present |-> TRUE, total |-> 1200, segs |-> 2] }
ClockSteps == {1, defaultRetentionMs}
PromptClockSteps == {1, defaultTimeout}
OptionChoices == { {"YES", "NO"}, {"YES"} }
\* message ids a reaction event can name: the bot's messages and one that is not
EventIds == 1..(MaxMsgs + 1)
\* the symbol of a reaction event: one of each kind handleReaction tells apart
EventEmojis == VerbosityEmojis \cup {"RETRY_SMART", "EXPLAIN", "YES", "REFRESH", "NONE"}

MetaInit ==
  /\ now = 0
  /\ ticks = 0
  /\ messages = <<>>
  /\ pendingPrompts = <<>>
  /\ promptFlight = <<>>
  /\ nextId = 1
  /\ display = [m \in MsgIds |-> <<>>]
  /\ pipes = [k \in PipeIds |-> IdlePipe]
  /\ last = NoSummary
  /\ window = [m \in MsgIds |-> NoWindow]
  /\ selected = [m \in MsgIds |-> 0]

(***************************************************************************)
(* The clock.                                                              *)
(***************************************************************************)
Advance(d) ==
  /\ ticks < MaxTicks
  /\ now' = now + d
  /\ ticks' = ticks + 1
  /\ UNCHANGED <<messages, pendingPrompts, promptFlight, nextId, display, pipes, last,
                 window, selected, notMeta>>

(***************************************************************************)
(* part_008, message handler: send the formatted response, then store its  *)
(* metadata under the id the platform assigned.                            *)
(***************************************************************************)
BotRespond(res, metricsData) ==
  /\ nextId <= MaxMsgs
  /\ LET m == nextId
         responseText == formatOrchestratorResult(res[1], res[2], metricsData,
                                                  <<<<"body", ToString(m)>>>>)
     IN /\ display' = [display EXCEPT ![m] = responseText]
        /\ messages' = store(messages, m,
                             BotResponseMetadata(1, responseText, res[1], res[2], metricsData),
                             now)
        /\ window' = [window EXCEPT ![m] =
                        [set |-> TRUE, t0 |-> now, retention |-> defaultRetentionMs,
                         level |-> "medium"]]
  /\ nextId' = nextId + 1
  /\ UNCHANGED <<now, ticks, pendingPrompts, promptFlight, pipes, last, selected, notMeta>>

(***************************************************************************)
(* MessageMetadataStore used directly: store with a retentionMs for a new  *)
(* message, delete, clear.                                                 *)
(***************************************************************************)
Store(retentionMs) ==
  /\ nextId <= MaxMsgs
  /\ LET m == nextId
         responseText == <<<<"body", ToString(m)>>>>
         metadata == Spread(BotResponseMetadata(1, responseText, "web-search",
                                                "Haiku (Fast)", NoMetrics),
                            [retentionMs |-> retentionMs])
     IN /\ display' = [display EXCEPT ![m] = responseText]
        /\ messages' = store(messages, m, metadata, now)
        /\ window' = [window EXCEPT ![m] =
                        [set |-> TRUE, t0 |-> now, retention |-> retentionMs,
                         level |-> "medium"]]
  /\ nextId' = nextId + 1
  /\ UNCHANGED <<now, ticks, pendingPrompts, promptFlight, pipes, last, selected, notMeta>>

Delete(m) ==
  /\ m \in DOMAIN messages
  /\ messages' = Remove(messages, m)
  /\ window' = [window EXCEPT ![m] = NoWindow]
  /\ UNCHANGED <<now, ticks, pendingPrompts, promptFlight, nextId, display, pipes, last,
                 selected, notMeta>>

Clear ==
  /\ messages # <<>>
  /\ messages' = <<>>
  /\ window' = [m \in MsgIds |-> NoWindow]
  /\ UNCHANGED <<now, ticks, pendingPrompts, promptFlight, nextId, display, pipes, last,
                 selected, notMeta>>

\* the partial records a caller hands to update
PartialChoices ==
  {[note |-> "plain"],
   [verbosity |-> "full", note |-> "plain"],
   [note |-> "stamped", createdAt |-> 7, expiresAt |-> 9],
   [expiresAt |-> 9]}

\* a caller's update(messageId, updates) and the value it returns
Update(m, updates) ==
  /\ messages' = update(messages, m, updates)
  /\ updateReturned' = IF m \in DOMAIN messages THEN "true" ELSE "false"
  /\ UNCHANGED <<now, ticks, pendingPrompts, promptFlight, nextId, display, pipes, last,
                 window, selected, sessVars, dispVars, routeVars, renderVars, requestVars,
                 collectorVars>>

(***************************************************************************)
(* The two background sweeps: the store's own timer (cleanup()) and the    *)
(* bot's interval (cleanup(3600000)).                                      *)
(***************************************************************************)
StoreSweep ==
  /\ messages' = cleanup(messages, 0, now)
  /\ UNCHANGED <<now, ticks, pendingPrompts, promptFlight, nextId, display, pipes, last,
                 window, selected, notMeta>>

BotSweep ==
  /\ messages' = cleanup(messages, BotCleanupAgeMs, now)
  /\ UNCHANGED <<now, ticks, pendingPrompts, promptFlight, nextId, display, pipes, last,
                 window, selected, notMeta>>

(***************************************************************************)
(* reaction-handler.js, handleReaction: one pipeline per reaction event.   *)
(* The pipeline runs to its first await in one step, and resumes in a      *)
(* later step when the awaited platform call has settled.                  *)
(***************************************************************************)
\* a handleReaction that takes the show-metrics symbol for feedback
handleReactionMetricsAsFeedback(msgs, t, m, emoji) ==
  LET metadata == IF emoji = "NONE" THEN NoMeta ELSE get(msgs, m, t)
      base == [IdlePipe EXCEPT !.msg = m, !.emoji = emoji]
  IN IF metadata = NoMeta \/ emoji = "REFRESH" THEN IdlePipe
     ELSE IF isVerbosityEmoji(emoji)
       THEN [base EXCEPT !.pc = "await_edit",
                         !.text = RenderFor(metadata, getVerbosityFromEmoji(emoji))]
     ELSE IF emoji = "RETRY_SMART"
       THEN [base EXCEPT !.pc = IF AlreadySmart(metadata) THEN "await_last_send"
                                                          ELSE "await_retry_send",
                         !.sends = 1]
     ELSE IF emoji = "EXPLAIN"
       THEN [base EXCEPT !.pc = "await_last_send", !.sends = 1]
     ELSE [base EXCEPT !.pc = "await_feedback_send", !.sends = 1]

\* handleReaction(reaction) at time t: the pipeline as it stands at its first
\* await, or IdlePipe when handleReaction returns without reaching one
handleReaction(msgs, t, m, emoji) ==
  LET metadata == IF emoji = "NONE" THEN NoMeta ELSE get(msgs, m, t)
      base == [IdlePipe EXCEPT !.msg = m, !.emoji = emoji]
  IN IF metadata = NoMeta \/ emoji = "REFRESH" THEN IdlePipe
     ELSE IF isVerbosityEmoji(emoji)
       THEN [base EXCEPT !.pc = "await_edit",
                         !.text = RenderFor(metadata, getVerbosityFromEmoji(emoji))]
     ELSE IF emoji = "RETRY_SMART"
       THEN [base EXCEPT !.pc = IF AlreadySmart(metadata) THEN "await_last_send"
                                                          ELSE "await_retry_send",
                         !.sends = 1]
     ELSE IF emoji \in {"EXPLAIN", "METRICS"}
       THEN [base EXCEPT !.pc = "await_last_send", !.sends = 1]
     ELSE [base EXCEPT !.pc = "await_feedback_send", !.sends = 1]

\* the store's map after handleReaction's metadataStore.get
handleReactionStore(msgs, t, m, emoji) ==
  IF emoji = "NONE" THEN msgs ELSE getEvict(msgs, m, t)

\* handleReaction up to the first await (or to its return)
ReactStart(k, m, emoji) ==
  /\ Free(k)
  /\ messages' = handleReactionStore(messages, now, m, emoji)
  /\ pipes' = [pipes EXCEPT ![k] = handleReaction(messages, now, m, emoji)]
  /\ last' = [handled |-> TRUE,
              found |-> emoji # "NONE" /\ get(messages, m, now) # NoMeta,
              called |-> handleReaction(messages, now, m, emoji) # IdlePipe,
              rejected |-> FALSE]
  /\ UNCHANGED <<now, ticks, pendingPrompts, promptFlight, nextId, display, window,
                 selected, notMeta>>

\* handleReaction(null): destructuring the event throws before the try block,
\* the promise handleReaction returned is rejected, and so is the listener's
ReactNull ==
  /\ last' = [handled |-> TRUE, found |-> FALSE, called |-> FALSE, rejected |-> TRUE]
  /\ UNCHANGED <<now, ticks, messages, pendingPrompts, promptFlight, nextId, display,
                 pipes, window, selected, notMeta>>

\* the platform settles editMessageText: applied, or rejected (the .catch logs it)
EditSettles(k, ok) ==
  /\ pipes[k].pc = "await_edit"
  /\ display' = IF ok THEN [display EXCEPT ![pipes[k].msg] = pipes[k].text]
                      ELSE display
  /\ window' = IF ok THEN [window EXCEPT ![pipes[k].msg].level =
                                            getVerbosityFromEmoji(pipes[k].emoji)]
                     ELSE window
  /\ pipes' = [pipes EXCEPT ![k].pc = "edit_settled"]
  /\ UNCHANGED <<now, ticks, messages, pendingPrompts, promptFlight, nextId, last,
                 selected, notMeta>>

\* changeVerbosity after the edit: update the record, then setMessageReaction
VerbosityResume(k) ==
  /\ pipes[k].pc = "edit_settled"
  /\ LET m == pipes[k].msg
         newVerbosity == getVerbosityFromEmoji(pipes[k].emoji)
     IN /\ messages' = update(messages, m, VerbosityUpdates(newVerbosity, pipes[k].text))
        /\ pipes' = [pipes EXCEPT ![k].pc = "await_reaction",
                                  ![k].verbAfter =
                                     IF m \in DOMAIN messages'
                                       THEN messages'[m].verbosity ELSE "absent",
                                  ![k].offered = getReactionsForVerbosity(newVerbosity)]
  /\ UNCHANGED <<now, ticks, pendingPrompts, promptFlight, nextId, display, last, window,
                 selected, notMeta>>

\* setMessageReaction settles; a failure is swallowed
ReactionSettles(k) ==
  /\ pipes[k].pc = "await_reaction"
  /\ pipes' = [pipes EXCEPT ![k] = IdlePipe]
  /\ UNCHANGED <<now, ticks, messages, pendingPrompts, promptFlight, nextId, display,
                 last, window, selected, notMeta>>

\* the last sendMessage of a handler settles (a rejection is caught by handleReaction)
LastSendSettles(k) ==
  /\ pipes[k].pc = "await_last_send"
  /\ pipes' = [pipes EXCEPT ![k] = IdlePipe]
  /\ UNCHANGED <<now, ticks, messages, pendingPrompts, promptFlight, nextId, display,
                 last, window, selected, notMeta>>

\* retryWithSmartModel after "Retrying...": record the flag, then send the note
RetryResume(k, ok) ==
  /\ pipes[k].pc = "await_retry_send"
  /\ IF ok
       THEN /\ messages' = update(messages, pipes[k].msg, RetryUpdates)
            /\ pipes' = [pipes EXCEPT ![k].pc = "await_last_send",
                                      ![k].sends = pipes[k].sends + 1]
       ELSE /\ messages' = messages
            /\ pipes' = [pipes EXCEPT ![k] = IdlePipe]
  /\ UNCHANGED <<now, ticks, pendingPrompts, promptFlight, nextId, display, last, window,
                 selected, notMeta>>

\* handleUserFeedback after the acknowledgment: store the feedback
FeedbackResume(k, ok) ==
  /\ pipes[k].pc = "await_feedback_send"
  /\ messages' = IF ok THEN update(messages, pipes[k].msg, FeedbackUpdates(pipes[k].emoji))
                       ELSE messages
  /\ pipes' = [pipes EXCEPT ![k] = IdlePipe]
  /\ UNCHANGED <<now, ticks, pendingPrompts, promptFlight, nextId, display, last, window,
                 selected, notMeta>>

(***************************************************************************)
(* user-prompt-handler.js                                                  *)
(***************************************************************************)
\* promptUser: the entry put into pendingPrompts
PromptData(chatId, options, timeout, t) ==
  [chatId |-> chatId, options |-> options, createdAt |-> t,
   expiresAt |-> t + (IF timeout # 0 THEN timeout ELSE defaultTimeout)]

\* promptUser: metadataStore.store(messageId, { chatId, type: 'user-prompt', ... })
PromptStoreMeta(msgs, messageId, chatId, t) ==
  store(msgs, messageId, PromptMetadata(chatId), t)

\* a handleResponse that leaves the answered prompt in the table
KeepPrompt(prompts, messageId) == prompts

\* handleResponse: pendingPrompts.delete once the user has responded
ConsumePrompt(prompts, messageId) == Remove(prompts, messageId)

\* promptUser up to its await of setMessageReaction
PromptUser(chatId, options, timeout) ==
  /\ nextId <= MaxMsgs
  /\ pendingPrompts' = Put(pendingPrompts, nextId, PromptData(chatId, options, timeout, now))
  /\ promptFlight' = Put(promptFlight, nextId, chatId)
  /\ display' = [display EXCEPT ![nextId] = <<<<"prompt", ToString(nextId)>>>>]
  /\ nextId' = nextId + 1
  /\ UNCHANGED <<now, ticks, messages, pipes, last, window, selected, notMeta>>

\* promptUser after setMessageReaction settled: store the metadata record
PromptUserStore(m) ==
  /\ m \in DOMAIN promptFlight
  /\ promptFlight' = Remove(promptFlight, m)
  /\ messages' = PromptStoreMeta(messages, m, promptFlight[m], now)
  /\ window' = [window EXCEPT ![m] =
                  [set |-> TRUE, t0 |-> now, retention |-> defaultRetentionMs,
                   level |-> "none"]]
  /\ UNCHANGED <<now, ticks, pendingPrompts, nextId, display, pipes, last, selected, notMeta>>

\* handleResponse(messageId, emoji)
HandleResponse(m, emoji) ==
  /\ selected[m] < 2
  /\ IF m \notin DOMAIN pendingPrompts
       THEN UNCHANGED <<pendingPrompts, messages, selected>>
     ELSE IF now > pendingPrompts[m].expiresAt
       THEN /\ pendingPrompts' = Remove(pendingPrompts, m)
            /\ UNCHANGED <<messages, selected>>
     ELSE IF emoji \notin pendingPrompts[m].options
       THEN UNCHANGED <<pendingPrompts, messages, selected>>
     ELSE /\ pendingPrompts' = ConsumePrompt(pendingPrompts, m)
          /\ messages' = update(messages, m, [promptAnswered |-> TRUE,
                                              selectedOption |-> emoji])
          /\ selected' = [selected EXCEPT ![m] = @ + 1]
  /\ UNCHANGED <<now, ticks, promptFlight, nextId, display, pipes, last, window, notMeta>>

CancelPrompt(m) ==
  /\ pendingPrompts' = IF m \in DOMAIN pendingPrompts THEN Remove(pendingPrompts, m)
                                                      ELSE pendingPrompts
  /\ UNCHANGED <<now, ticks, messages, promptFlight, nextId, display, pipes, last, window,
                 selected, notMeta>>

CancelAllForChat(chatId) ==
  /\ pendingPrompts' = [m \in { x \in DOMAIN pendingPrompts :
                                  pendingPrompts[x].chatId # chatId } |-> pendingPrompts[m]]
  /\ UNCHANGED <<now, ticks, messages, promptFlight, nextId, display, pipes, last, window,
                 selected, notMeta>>

\* UserPromptHandler.cleanup(), run by its one-minute timer
PromptSweep ==
  /\ pendingPrompts' = [m \in { x \in DOMAIN pendingPrompts :
                                  ~(now > pendingPrompts[x].expiresAt) } |-> pendingPrompts[m]]
  /\ UNCHANGED <<now, ticks, messages, promptFlight, nextId, display, pipes, last, window,
                 selected, notMeta>>

(***************************************************************************)
(* The metadata store with the reaction controller.                        *)
(***************************************************************************)
(***************************************************************************)
(* Session persistence: part_004 (session store), main.js (ChatSession,    *)
(* createSession) and part_008 (getUserSession, /clear, initialization).   *)
(*                                                                         *)
(* A JavaScript value used as a key is a pair <<type, n>>: the number n,   *)
(* or the string that is the decimal text of n.  A Map distinguishes the   *)
(* two; an object property name is always the string.                      *)
(***************************************************************************)
Num(n) == <<"number", n>>
Str(n) == <<"string", n>>
\* String(key), the conversion an object property name goes through
ToPropertyKey(key) == <<"string", key[2]>>

SessChats == 1..MaxChats
SaveIds == 1..MaxSaves

AbsentFile == [state |-> "absent", table |-> <<>>]
PartialFile == [state |-> "partial", table |-> <<>>]
CompleteFile(table) == [state |-> "complete", table |-> table]

NoEntry == [set |-> FALSE, history |-> <<>>, turnCount |-> 0]
IdleSave == [pc |-> "idle", json |-> <<>>, origin |-> "none", chat |-> 0]

\* the history array a cache entry holds: an entry written by setSession shares
\* the array of the ChatSession that wrote it
EntryHistory(cache, sessions, key) ==
  IF cache[key].alias /\ key[2] \in DOMAIN sessions
    THEN sessions[key[2]].history
    ELSE cache[key].history

\* saveSessions: plainObject[userId] = sessionData for every entry in Map order
\* (entries loaded from disk come first), then JSON.stringify
Serialize(cache, sessions) ==
  LET names == { ToPropertyKey(k) : k \in DOMAIN cache }
      winner(name) == IF Num(name[2]) \in DOMAIN cache THEN Num(name[2]) ELSE name
  IN [name \in names |->
        [history |-> EntryHistory(cache, sessions, winner(name)),
         turnCount |-> cache[winner(name)].turnCount]]

\* loadSessions: the table read from the session file; fs.readFile fails with
\* ENOENT when the file is absent (an empty table is returned) and with another
\* error when it is unreadable (rethrown), JSON.parse throws on a file that is
\* not valid JSON
loadSessions(file, readable) ==
  IF ~readable THEN [threw |-> TRUE, cache |-> <<>>]
  ELSE IF file.state = "absent" THEN [threw |-> FALSE, cache |-> <<>>]
  ELSE IF file.state = "partial" THEN [threw |-> TRUE, cache |-> <<>>]
  ELSE [threw |-> FALSE,
        cache |-> [key \in DOMAIN file.table |->
                     [history |-> file.table[key].history,
                      turnCount |-> file.table[key].turnCount,
                      alias |-> FALSE]]]

\* a rethrowing init: no catch around loadSessions
initRethrowing(file, readable) ==
  LET loaded == loadSessions(file, readable)
  IN [cache |-> loaded.cache, count |-> Cardinality(DOMAIN loaded.cache),
      threw |-> loaded.threw]

\* init: loadSessions inside try/catch; on any error an empty table and 0
init(file, readable) ==
  LET loaded == loadSessions(file, readable)
  IN IF loaded.threw
       THEN [cache |-> <<>>, count |-> 0, threw |-> FALSE]
       ELSE [cache |-> loaded.cache, count |-> Cardinality(DOMAIN loaded.cache),
             threw |-> FALSE]

\* getSession(userId): a Map lookup
getSession(cache, userId) == userId \in DOMAIN cache

\* createSession(userId): the ChatSession it returns
createSession(cache, sessions, userId) ==
  IF getSession(cache, userId)
    THEN [history |-> EntryHistory(cache, sessions, userId),
          turnCount |-> cache[userId].turnCount]
    ELSE [history |-> <<>>, turnCount |-> 0]

\* setSession(userId, session.getState())
setSession(cache, userId, session) ==
  Put(cache, userId, [history |-> <<>>, turnCount |-> session.turnCount, alias |-> TRUE])

\* getUserSession(chatId): the bot's Map of ChatSession objects after the call
getUserSession(sessions, cache, chatId) ==
  IF chatId \in DOMAIN sessions THEN sessions
  ELSE Put(sessions, chatId, createSession(cache, sessions, Num(chatId)))

\* the cache after a session restored from an entry starts sharing its array
ShareRestored(cache, sessions, chatId) ==
  IF chatId \notin DOMAIN sessions /\ getSession(cache, Num(chatId))
    THEN [cache EXCEPT ![Num(chatId)].alias = TRUE]
    ELSE cache

NoInit == [done |-> FALSE, met |-> "none", count |-> 0]

\* what init meets when it reads the session file
Met(file, readable) ==
  IF ~readable THEN "unreadable"
  ELSE IF file.state = "absent" THEN "absent"
  ELSE IF file.state = "partial" THEN "invalid"
  ELSE "loaded"

\* a polling bot that was constructed already polling
PollingFromConstruction(p) == p \in {"loading", "polling"}

\* are updates (messages, commands, reactions) delivered to the listeners: the bot
\* is constructed with polling: false and startPolling runs after init returned
Polling(p) == p = "polling"

FreeSaves == { i \in SaveIds : saves[i].pc = "idle" }
LowestFree(n) == { i \in FreeSaves : Cardinality({ j \in FreeSaves : j < i }) < n }
\* saveSessions() called once per element of origins in one synchronous run, for
\* chat c (0 for the timer): each call awaits copyFile
StartSaves(origins, c) ==
  [i \in SaveIds |->
     IF i \in LowestFree(Len(origins))
       THEN [pc |-> "await_copy", json |-> <<>>,
             origin |-> origins[Cardinality({ j \in FreeSaves : j < i }) + 1],
             chat |-> c]
       ELSE saves[i]]

SessInit ==
  /\ lastActive = [c \in SessChats |-> 0]
  /\ sessionsCache = <<>>
  /\ userSessions = <<>>
  /\ exch = {}
  /\ nextExch = 1
  /\ primaryFile = AbsentFile
  /\ backupFile = AbsentFile
  /\ saves = [i \in SaveIds |-> IdleSave]
  /\ savesDone = 0
  /\ restarts = 0
  /\ expected = [c \in SessChats |-> NoEntry]
  /\ restored = [c \in SessChats |-> NoEntry]
  /\ replies = [c \in SessChats |-> "none"]
  /\ phase = "polling"
  /\ lastInit = NoInit

\* part_008 message handler and ChatSession.sendMessage up to `await orchestrate`
MessageArrives(c) ==
  /\ Polling(phase)
  /\ nextExch <= MaxExch
  /\ LET sessions == getUserSession(userSessions, sessionsCache, c)
         session == sessions[c]
     IN /\ userSessions' = [sessions EXCEPT ![c] =
                              [history |-> Append(session.history, <<"user", nextExch>>),
                               turnCount |-> session.turnCount + 1]]
        /\ sessionsCache' = ShareRestored(sessionsCache, userSessions, c)
        /\ restored' = IF c \in DOMAIN userSessions THEN restored
                       ELSE [restored EXCEPT ![c] =
                               [set |-> TRUE, history |-> session.history,
                                turnCount |-> session.turnCount]]
  /\ exch' = exch \cup {[chat |-> c, id |-> nextExch]}
  /\ nextExch' = nextExch + 1
  /\ UNCHANGED <<primaryFile, backupFile, saves, savesDone, restarts, expected, replies,
                 lifeVars, notSess, lastActive>>

\* ChatSession.sendMessage after orchestrate returned: push the assistant turn,
\* setSession, start saveSessions without awaiting it
ExchangeDone(e) ==
  /\ e \in exch
  /\ FreeSaves # {}
  /\ LET session == userSessions[e.chat]
         after == [session EXCEPT !.history = Append(@, <<"assistant", e.id>>)]
     IN /\ userSessions' = [userSessions EXCEPT ![e.chat] = after]
        /\ sessionsCache' = setSession(sessionsCache, Num(e.chat), after)
  /\ lastActive' = [lastActive EXCEPT ![e.chat] = now]
  /\ saves' = StartSaves(<<"sendMessage">>, e.chat)
  /\ exch' = exch \ {e}
  /\ UNCHANGED <<nextExch, primaryFile, backupFile, savesDone, restarts, expected,
                 restored, replies, lifeVars, notSess>>

\* the /clear command: clearHistory (setSession, saveSessions), deleteSession,
\* await saveSessions
ClearCommand(c) ==
  /\ Polling(phase)
  /\ Cardinality(FreeSaves) >= 2
  /\ LET sessions == getUserSession(userSessions, sessionsCache, c)
     IN /\ userSessions' = [sessions EXCEPT ![c] = [history |-> <<>>, turnCount |-> 0]]
        /\ restored' = IF c \in DOMAIN userSessions THEN restored
                       ELSE [restored EXCEPT ![c] =
                               [set |-> TRUE, history |-> sessions[c].history,
                                turnCount |-> sessions[c].turnCount]]
  /\ sessionsCache' = Remove(sessionsCache, Num(c))
  /\ lastActive' = [lastActive EXCEPT ![c] = now]
  /\ saves' = StartSaves(<<"clearHistory", "clear">>, c)
  /\ replies' = [replies EXCEPT ![c] = "awaiting"]
  /\ UNCHANGED <<exch, nextExch, primaryFile, backupFile, savesDone, restarts, expected,
                 lifeVars, notSess>>

\* the auto-save timer
AutoSave ==
  /\ phase = "polling"
  /\ DOMAIN sessionsCache # {}
  /\ FreeSaves # {}
  /\ saves' = StartSaves(<<"timer">>, 0)
  /\ UNCHANGED <<sessionsCache, userSessions, exch, nextExch, primaryFile, backupFile,
                 savesDone, restarts, expected, restored, replies, lifeVars, notSess, lastActive>>

\* saveSessions: copyFile settled (ENOENT when there is no primary file yet);
\* serialize the cache as it is now and call writeFile
CopySettles(i) ==
  /\ saves[i].pc = "await_copy"
  /\ backupFile' = IF primaryFile.state = "absent" THEN backupFile ELSE primaryFile
  /\ saves' = [saves EXCEPT ![i].pc = "await_write",
                             ![i].json = Serialize(sessionsCache, userSessions)]
  /\ UNCHANGED <<sessionsCache, userSessions, exch, nextExch, primaryFile, savesDone,
                 restarts, expected, restored, replies, lifeVars, notSess, lastActive>>

\* the /clear handler after its `await saveSessions()`: it sends the confirmation
\* when the save resolved and is left by the exception when the save rejected
Settled(save, outcome) ==
  IF save.origin = "clear" THEN [replies EXCEPT ![save.chat] = outcome] ELSE replies

\* fs.writeFile opens the primary file, which truncates it
WriteBegins(i) ==
  /\ saves[i].pc = "await_write"
  /\ primaryFile' = PartialFile
  /\ saves' = [saves EXCEPT ![i].pc = "writing"]
  /\ UNCHANGED <<sessionsCache, userSessions, exch, nextExch, backupFile, savesDone,
                 restarts, expected, restored, replies, lifeVars, notSess, lastActive>>

\* fs.writeFile has written everything; saveSessions returns
WriteEnds(i) ==
  /\ saves[i].pc = "writing"
  /\ primaryFile' = CompleteFile(saves[i].json)
  /\ saves' = [saves EXCEPT ![i] = IdleSave]
  /\ savesDone' = IF savesDone < 2 THEN savesDone + 1 ELSE savesDone
  /\ replies' = Settled(saves[i], "sent")
  /\ UNCHANGED <<sessionsCache, userSessions, exch, nextExch, backupFile, restarts,
                 expected, restored, lifeVars, notSess, lastActive>>

\* fs.writeFile rejects, before or after it truncated the file: saveSessions logs
\* and rethrows; the .catch of sendMessage and clearHistory and the try/catch of
\* the timer log the error, the /clear handler has neither
WriteFails(i) ==
  /\ saves[i].pc \in {"await_write", "writing"}
  /\ saves' = [saves EXCEPT ![i] = IdleSave]
  /\ replies' = Settled(saves[i], "error")
  /\ UNCHANGED <<sessionsCache, userSessions, exch, nextExch, primaryFile, backupFile,
                 savesDone, restarts, expected, restored, lifeVars, notSess, lastActive>>

\* the process stops (at any point) and is started again: module state is new,
\* the bot is constructed, the initialization awaits sessionStore.init()
Restart ==
  /\ restarts < MaxRestarts
  /\ restarts' = restarts + 1
  /\ phase' = "loading"
  /\ lastInit' = NoInit
  /\ sessionsCache' = <<>>
  /\ userSessions' = <<>>
  /\ exch' = {}
  /\ saves' = [i \in SaveIds |-> IdleSave]
  /\ expected' = [c \in SessChats |-> NoEntry]
  /\ restored' = [c \in SessChats |-> NoEntry]
  /\ replies' = [c \in SessChats |-> "none"]
  /\ UNCHANGED <<nextExch, primaryFile, backupFile, savesDone, notSess, lastActive>>

\* part_008 initialization after `await sessionStore.init()`: startAutoSave and
\* startPolling, or process.exit(1) when init threw
InitReturns(readable) ==
  /\ phase = "loading"
  /\ LET returned == init(primaryFile, readable)
     IN /\ sessionsCache' = returned.cache
        /\ phase' = IF returned.threw THEN "exited" ELSE "polling"
        /\ lastInit' = [done |-> TRUE, met |-> Met(primaryFile, readable),
                        count |-> returned.count]
  /\ expected' = [c \in SessChats |->
                    IF readable /\ primaryFile.state = "complete"
                       /\ ToPropertyKey(Num(c)) \in DOMAIN primaryFile.table
                      THEN [set |-> TRUE,
                            history |-> primaryFile.table[ToPropertyKey(Num(c))].history,
                            turnCount |-> primaryFile.table[ToPropertyKey(Num(c))].turnCount]
                      ELSE NoEntry]
  /\ UNCHANGED <<userSessions, exch, nextExch, primaryFile, backupFile, saves, savesDone,
                 restarts, restored, replies, notSess, lastActive>>

(***************************************************************************)
(* The dispatcher: orchestrate, executeSkill and executeClaude of main.js. *)
(* One orchestrate call is a pipeline suspended at `await handler` or at   *)
(* `await executeClaude`.                                                  *)
(***************************************************************************)
Skills == {"general", "web-search", "code-exec", "docker-mgr", "skill-creator", "pr-review"}
HandlerOutcomes == {"success", "failure", "throws"}

IdleCall ==
  [pc |-> "idle", skill |-> "none", hasHandler |-> FALSE, codeMatch |-> FALSE,
   via |-> "none", prompt |-> <<"none", "none">>, handlerCalls |-> 0, handlerOutcome |-> "none",
   modelCalls |-> 0, modelFailed |-> FALSE, afterFailure |-> 0, result |-> <<>>]

\* buildSkillPrompt(skillId, userMessage, context)
buildSkillPrompt(skillId) == <<"prompt", skillId>>

\* an executeClaude that lets the request's error escape
executeClaudeRethrowing(ok, prompt) ==
  IF ok THEN [method |-> "claude-http", output |-> <<"answer", prompt>>]
        ELSE [thrown |-> TRUE]

\* what executeClaude returns for the outcome of the HTTP request
executeClaude(ok, prompt) ==
  IF ok THEN [method |-> "claude-http", output |-> <<"answer", prompt>>]
        ELSE [method |-> "claude-http", error |-> "request failed", output |-> <<>>]

\* executeSkill's switch: does this skill call its handler
CallsHandler(skillId, codeMatch) ==
  \/ skillId \in {"web-search", "skill-creator"}
  \/ skillId = "code-exec" /\ codeMatch

\* one more invocation by the dispatcher, counted when the model has already failed
Invoked(c) == IF c.modelFailed THEN c.afterFailure + 1 ELSE c.afterFailure

\* the call record when executeClaude is entered with the built prompt
CallModel(c, via) ==
  [c EXCEPT !.pc = "await_model", !.via = via, !.modelCalls = @ + 1,
            !.prompt = buildSkillPrompt(c.skill), !.afterFailure = Invoked(c)]

\* orchestrate's return value around the result of step 4
Orchestrated(c, result) == [success |-> TRUE, skill |-> c.skill, result |-> result]

\* formatOrchestratorResult, the main result: what the user is shown for the
\* value orchestrate returned (an error line, an output, a stringified object
\* or the no-content notice); <<>> is the empty string
ResultBody(response) ==
  IF Has(response, "result")
    THEN LET r == response.result
         IN IF Has(r, "error") THEN <<"error", r.error>>
            ELSE IF Has(r, "output") /\ r.output # <<>> THEN <<"output", r.output>>
            ELSE IF Has(r, "result") /\ Has(r.result, "output") /\ r.result.output # <<>>
              THEN <<"output", r.result.output>>
            ELSE IF Has(r, "result") THEN <<"json", r.result>>
            ELSE <<"no content">>
  ELSE IF Has(response, "error") THEN <<"error", response.error>>
  ELSE <<"empty">>

\* ChatSession.sendMessage: the responseText pushed as the assistant turn
HistoryText(response) ==
  LET found ==
        IF ~Has(response, "result") THEN <<>>
        ELSE LET r == response.result
             IN IF Has(r, "output") /\ r.output # <<>> THEN r.output
                ELSE IF Has(r, "result") /\ Has(r.result, "output") /\ r.result.output # <<>>
                  THEN r.result.output
                ELSE <<>>
  IN IF found = <<>> /\ Has(response, "error") THEN <<"Error: ", response.error>>
     ELSE found

DispInit ==
  /\ call = IdleCall
  /\ calls = 0

\* orchestrate up to its first await
Orchestrate(skillId, hasHandler, codeMatch) ==
  /\ call.pc \in {"idle", "done"}
  /\ calls < MaxCalls
  /\ calls' = calls + 1
  /\ LET c == [IdleCall EXCEPT !.skill = skillId, !.hasHandler = hasHandler,
                               !.codeMatch = codeMatch]
     IN call' = IF skillId = "general" THEN CallModel(c, "direct")
                ELSE IF ~hasHandler THEN CallModel(c, "no-handler")
                ELSE IF CallsHandler(skillId, codeMatch)
                  THEN [c EXCEPT !.pc = "await_handler", !.handlerCalls = @ + 1]
                ELSE CallModel(c, "switch")
  /\ UNCHANGED notDisp

\* the skill handler settles: a result (success or failure) is wrapped and
\* returned, an exception reaches executeSkill's catch
HandlerSettles(outcome) ==
  /\ call.pc = "await_handler"
  /\ LET c == [call EXCEPT !.handlerOutcome = outcome]
     IN call' = IF outcome = "throws"
                  THEN CallModel(c, "fallback")
                  ELSE [c EXCEPT !.pc = "done",
                          !.result = Orchestrated(c,
                             [method |-> "skill-handler", skill |-> c.skill,
                              result |-> [success |-> outcome = "success"]])]
  /\ UNCHANGED <<calls, notDisp>>

\* the HTTP request of executeClaude settles
ModelSettles(ok) ==
  /\ call.pc = "await_model"
  /\ LET returned == executeClaude(ok, call.prompt)
         c == [call EXCEPT !.modelFailed = @ \/ ~ok]
     IN call' =
          IF Has(returned, "thrown")
            THEN IF c.via \in {"no-handler", "switch"}
                   THEN CallModel(c, "fallback")
                   ELSE [c EXCEPT !.pc = "done",
                           !.result = [success |-> FALSE, error |-> "request failed"]]
          ELSE IF c.via = "switch"
            THEN [c EXCEPT !.pc = "done",
                    !.result = Orchestrated(c, [method |-> "skill-handler",
                                                skill |-> c.skill, result |-> returned])]
          ELSE IF c.via = "fallback"
            THEN [c EXCEPT !.pc = "done",
                    !.result = Orchestrated(c, [method |-> "skill-handler",
                                                error |-> "handler failed",
                                                fallback |-> returned])]
          ELSE [c EXCEPT !.pc = "done", !.result = Orchestrated(c, returned)]
  /\ UNCHANGED <<calls, notDisp>>

(***************************************************************************)
(* The classifier and the tier selector: detectSkill of skill-router.js,   *)
(* analyzeTaskComplexity and chooseModel of the model picker.  A text is a *)
(* sequence of characters followed by `padding` further characters that no *)
(* phrase of either table contains (a run of full stops).                  *)
(***************************************************************************)
UpperCase == <<"A", "B", "C", "D", "E", "F", "G", "H", "I", "J", "K", "L", "M", "N", "O", "P", "Q", "R", "S", "T", "U", "V", "W", "X", "Y", "Z">>
LowerCase == <<"a", "b", "c", "d", "e", "f", "g", "h", "i", "j", "k", "l", "m", "n", "o", "p", "q", "r", "s", "t", "u", "v", "w", "x", "y", "z">>

LowerOf == [c \in {UpperCase[j] : j \in DOMAIN UpperCase} |->
              LowerCase[CHOOSE j \in DOMAIN UpperCase : UpperCase[j] = c]]

\* String.prototype.toLowerCase on the characters of a text
toLowerCase(s) ==
  [i \in DOMAIN s |-> IF s[i] \in DOMAIN LowerOf THEN LowerOf[s[i]] ELSE s[i]]

\* String.prototype.includes
includes(s, phrase) ==
  \E i \in 1..(Len(s) - Len(phrase) + 1) : SubSeq(s, i, i + Len(phrase) - 1) = phrase

\* message.length
Length(message) == Len(message.chars) + message.padding

\* the skills table, in the order Object.entries enumerates it
skills ==
  <<
     [id |-> "web-search",
      keywords |-> <<<<"s", "e", "a", "r", "c", "h">>,
                     <<"f", "i", "n", "d">>,
                     <<"l", "o", "o", "k", " ", "u", "p">>,
                     <<"g", "o", "o", "g", "l", "e">>,
                     <<"w", "e", "b">>,
                     <<"i", "n", "f", "o", "r", "m", "a", "t", "i", "o", "n">>>>],
     [id |-> "pr-review",
      keywords |-> <<<<"p", "r">>,
                     <<"p", "u", "l", "l", " ", "r", "e", "q", "u", "e", "s", "t">>,
                     <<"r", "e", "v", "i", "e", "w">>,
                     <<"c", "h", "e", "c", "k", " ", "c", "o", "d", "e">>>>],
     [id |-> "code-exec",
      keywords |-> <<<<"r", "u", "n">>,
                     <<"e", "x", "e", "c", "u", "t", "e">>,
                     <<"c", "o", "m", "p", "i", "l", "e">>,
                     <<"t", "e", "s", "t", " ", "c", "o", "d", "e">>>>],
     [id |-> "file-ops",
      keywords |-> <<<<"d", "o", "w", "n", "l", "o", "a", "d">>,
                     <<"u", "p", "l", "o", "a", "d">>,
                     <<"f", "i", "l", "e">>,
                     <<"s", "a", "v", "e">>,
                     <<"f", "e", "t", "c", "h">>>>],
     [id |-> "web-scrape",
      keywords |-> <<<<"s", "c", "r", "a", "p", "e">>,
                     <<"e", "x", "t", "r", "a", "c", "t">>,
                     <<"c", "r", "a", "w", "l">>,
                     <<"p", "a", "r", "s", "e">>>>],
     [id |-> "organize",
      keywords |-> <<<<"o", "r", "g", "a", "n", "i", "z", "e">>,
                     <<"s", "o", "r", "t">>,
                     <<"c", "a", "t", "e", "g", "o", "r", "i", "z", "e">>,
                     <<"s", "t", "r", "u", "c", "t", "u", "r", "e">>>>],
     [id |-> "docker-mgr",
      keywords |-> <<<<"d", "o", "c", "k", "e", "r">>,
                     <<"c", "o", "n", "t", "a", "i", "n", "e", "r">>,
                     <<"d", "e", "p", "l", "o", "y">>,
                     <<"s", "p", "i", "n", " ", "u", "p">>>>],
     [id |-> "tts",
      keywords |-> <<<<"s", "p", "e", "a", "k">>,
                     <<"s", "a", "y">>,
                     <<"v", "o", "i", "c", "e">>,
                     <<"a", "u", "d", "i", "o">>,
                     <<"t", "t", "s">>>>],
     [id |-> "skill-creator",
      keywords |-> <<<<"c", "r", "e", "a", "t", "e", " ", "s", "k", "i", "l", "l">>,
                     <<"n", "e", "w", " ", "s", "k", "i", "l", "l">>,
                     <<"a", "d", "d", " ", "s", "k", "i", "l", "l">>,
                     <<"m", "a", "k", "e", " ", "s", "k", "i", "l", "l">>,
                     <<"s", "k", "i", "l", "l", " ", "c", "r", "e", "a", "t", "o", "r">>>>]
  >>

\* scores are counted in half points: a keyword match adds 1, the bonus 0.5
MatchPoints == 2
BonusPoints == 1

\* the score detectSkill accumulates for one skill: the keyword loop from the
\* i-th keyword on
RECURSIVE KeywordScore(_, _, _, _)
KeywordScore(lower, keywords, i, score) ==
  IF i > Len(keywords) THEN score
  ELSE KeywordScore(lower, keywords, i + 1,
         IF includes(lower, keywords[i])
           THEN score + MatchPoints
                + (IF includes(lower, toLowerCase(keywords[i])) THEN BonusPoints ELSE 0)
           ELSE score)

scores(lower) ==
  [i \in DOMAIN skills |-> KeywordScore(lower, skills[i].keywords, 1, 0)]

NoBest == [bestSkill |-> "null", bestScore |-> 0]

\* a "find highest score" loop that lets a later skill replace an equal one
RECURSIVE BestLatest(_, _, _)
BestLatest(sc, i, best) ==
  IF i > Len(skills) THEN best
  ELSE BestLatest(sc, i + 1,
         IF sc[i] >= best.bestScore /\ sc[i] > 0
           THEN [bestSkill |-> skills[i].id, bestScore |-> sc[i]]
           ELSE best)

\* the "find highest score" loop: `score > bestScore` over the entries in order
RECURSIVE BestOf(_, _, _)
BestOf(sc, i, best) ==
  IF i > Len(skills) THEN best
  ELSE BestOf(sc, i + 1,
         IF sc[i] > best.bestScore
           THEN [bestSkill |-> skills[i].id, bestScore |-> sc[i]]
           ELSE best)

detectSkill(message) ==
  LET lower == toLowerCase(message.chars)
      best == BestOf(scores(lower), 1, NoBest)
  IN IF best.bestScore > 0 THEN [skill |-> best.bestSkill, confidence |-> best.bestScore]
                           ELSE [skill |-> "general", confidence |-> 0]

models == [fast |-> "Haiku (Fast)", smart |-> "Sonnet (Smart)"]

\* the indicator tests of analyzeTaskComplexity: any phrase of a group adds its weight
HighIndicators ==
  <<[phrases |-> {<<"a", "n", "a", "l", "y", "z", "e">>, <<"a", "n", "a", "l", "y", "s", "i", "s">>}, weight |-> 2],
     [phrases |-> {<<"r", "e", "v", "i", "e", "w">>, <<"a", "u", "d", "i", "t">>}, weight |-> 2],
     [phrases |-> {<<"i", "m", "p", "l", "e", "m", "e", "n", "t">>, <<"c", "r", "e", "a", "t", "e">>}, weight |-> 2],
     [phrases |-> {<<"d", "e", "b", "u", "g">>, <<"f", "i", "x">>}, weight |-> 2],
     [phrases |-> {<<"o", "p", "t", "i", "m", "i", "z", "e">>, <<"i", "m", "p", "r", "o", "v", "e">>}, weight |-> 2],
     [phrases |-> {<<"a", "r", "c", "h", "i", "t", "e", "c", "t", "u", "r", "e">>, <<"d", "e", "s", "i", "g", "n">>}, weight |-> 3]>>
CodeIndicators ==
  <<[phrases |-> {<<"c", "o", "d", "e">>, <<"f", "u", "n", "c", "t", "i", "o", "n">>, <<"c", "l", "a", "s", "s">>}, weight |-> 1],
     [phrases |-> {<<"p", "r">>, <<"p", "u", "l", "l", " ", "r", "e", "q", "u", "e", "s", "t">>}, weight |-> 2],
     [phrases |-> {<<"r", "e", "f", "a", "c", "t", "o", "r">>}, weight |-> 2]>>
LowIndicators ==
  <<[phrases |-> {<<"w", "h", "a", "t", " ", "i", "s">>, <<"d", "e", "f", "i", "n", "e">>}, weight |-> 1],
     [phrases |-> {<<"l", "i", "s", "t">>, <<"s", "h", "o", "w", " ", "m", "e">>}, weight |-> 1]>>

threshold == 3
LongLength == 200
VeryLongLength == 500
ShortLength == 50
DeepTurns == 3

Matches(lower, group) == \E p \in group.phrases : includes(lower, p)

\* the weights of the groups that match, from the i-th group on
RECURSIVE Weigh(_, _, _)
Weigh(lower, groups, i) ==
  IF i > Len(groups) THEN 0
  ELSE (IF Matches(lower, groups[i]) THEN groups[i].weight ELSE 0)
       + Weigh(lower, groups, i + 1)

Max(a, b) == IF a >= b THEN a ELSE b

\* a scoring that takes the point off texts longer than ShortLength
analyzeTaskComplexityPenalizingLength(message, context) ==
  LET lower == toLowerCase(message.chars)
      complexityScore ==
          Weigh(lower, HighIndicators, 1)
        + Weigh(lower, CodeIndicators, 1)
        + (IF Length(message) > LongLength THEN 1 ELSE 0)
        + (IF Length(message) > VeryLongLength THEN 2 ELSE 0)
        + (IF Has(context, "conversationTurns") /\ context.conversationTurns > DeepTurns
             THEN 1 ELSE 0)
        - Weigh(lower, LowIndicators, 1)
        - (IF Length(message) > ShortLength THEN 1 ELSE 0)
  IN Max(0, complexityScore)

analyzeTaskComplexity(message, context) ==
  LET lower == toLowerCase(message.chars)
      complexityScore ==
          Weigh(lower, HighIndicators, 1)
        + Weigh(lower, CodeIndicators, 1)
        + (IF Length(message) > LongLength THEN 1 ELSE 0)
        + (IF Length(message) > VeryLongLength THEN 2 ELSE 0)
        + (IF Has(context, "conversationTurns") /\ context.conversationTurns > DeepTurns
             THEN 1 ELSE 0)
        - Weigh(lower, LowIndicators, 1)
        - (IF Length(message) < ShortLength THEN 1 ELSE 0)
  IN Max(0, complexityScore)

\* a chooseModel that looks at the override after the score
chooseModelScoreFirst(message, context) ==
  IF analyzeTaskComplexity(message, context) >= threshold THEN models.smart
  ELSE IF Has(context, "forceModel") /\ context.forceModel = "smart" THEN models.smart
  ELSE models.fast

chooseModel(message, context) ==
  LET complexity == analyzeTaskComplexity(message, context)
  IN IF Has(context, "forceModel") /\ context.forceModel = "fast" THEN models.fast
     ELSE IF Has(context, "forceModel") /\ context.forceModel = "smart" THEN models.smart
     ELSE IF complexity >= threshold THEN models.smart
     ELSE models.fast

\* explainChoice(message, chosenModel) as orchestrate calls it: with the name of
\* the chosen model (so chosenModel.name is undefined) and with no context
explainChoice(message, chosenModel) ==
  LET complexity == analyzeTaskComplexity(message, <<>>)
  IN [chosen |-> "undefined",
      complexity |-> complexity,
      reason |-> IF complexity >= 3 THEN "Task requires deep analysis and reasoning"
                                    ELSE "Quick response sufficient for this task"]

\* inputs: the words a text is composed of, the texts composing starts from, the
\* padding, and the contexts orchestrate is called with
Vocabulary ==
  {<<"r", "e", "v", "i", "e", "w">>,
   <<"R", "e", "v", "i", "e", "w">>,
   <<"p", "u", "l", "l", " ", "r", "e", "q", "u", "e", "s", "t">>,
   <<"a", "r", "c", "h", "i", "t", "e", "c", "t", "u", "r", "e">>,
   <<"s", "e", "a", "r", "c", "h">>,
   <<"f", "i", "n", "d">>,
   <<"i", "m", "p", "r", "o", "v", "e">>,
   <<"w", "h", "a", "t", " ", "i", "s">>,
   <<"h", "i">>}
ReviewRequest == <<"r", "e", "v", "i", "e", "w", " ", "p", "u", "l", "l", " ", "r", "e", "q", "u", "e", "s", "t", " ", "a", "r", "c", "h", "i", "t", "e", "c", "t", "u", "r", "e">>
BaseTexts == {<<>>, ReviewRequest}
PadChoices == {0, LongLength - 10, VeryLongLength}
ForceChoices == {"fast", "smart", "auto"}
TurnChoices == {0, DeepTurns + 1}
Contexts ==
  {[conversationTurns |-> t] : t \in TurnChoices}
    \cup {[conversationTurns |-> t, forceModel |-> f] : t \in TurnChoices, f \in ForceChoices}

NotRouted == [done |-> FALSE]

Message == [chars |-> text, padding |-> padding]

RouteIdle ==
  /\ text = <<>>
  /\ padding = 0
  /\ words = 0
  /\ routed = NotRouted

RouteInputs ==
  /\ text \in BaseTexts
  /\ padding \in PadChoices
  /\ words = 0
  /\ routed = NotRouted

\* one more word is put after the text, separated by a space
Compose(w) ==
  /\ words < MaxWords
  /\ ~routed.done
  /\ text' = IF text = <<>> THEN w ELSE text \o <<" ">> \o w
  /\ words' = words + 1
  /\ UNCHANGED <<padding, routed, notRoute>>

\* orchestrate, steps 1 and 2: detectSkill, then chooseModel and explainChoice
Route(context) ==
  /\ ~routed.done
  /\ routed' = [done |-> TRUE, context |-> context,
                skill |-> detectSkill(Message).skill,
                confidence |-> detectSkill(Message).confidence,
                model |-> chooseModel(Message, context),
                modelExplanation |-> explainChoice(Message, chooseModel(Message, context))]
  /\ UNCHANGED <<text, padding, words, notRoute>>

RouterNext ==
  \/ \E w \in Vocabulary : Compose(w)
  \/ \E context \in Contexts : Route(context)

(***************************************************************************)
(* Rendering a stored record at the three verbosity levels.                *)
(***************************************************************************)
Verbosities == {"minimal", "medium", "full"}
SkillDraw == {"undefined", "pr-review", "web-search"}
ModelDraw == {"undefined", "Haiku (Fast)", "Sonnet (Smart)"}
MetricsDraw ==
  {NoMetrics,
   [present |-> TRUE, total |-> 0, segs |-> 0],
   [present |-> TRUE, total |-> 5, segs |-> 1],
   [present |-> TRUE, total |-> 1200, segs |-> 2]}
OutputDraw == {<<>>, <<<<"body", "1">>>>}

\* the records the message handler stores (response text as formatted for
\* sending), and records whose response text is the bare output
StoredRecords ==
  { store(<<>>, 1,
          BotResponseMetadata(1,
            IF d[5] THEN formatOrchestratorResult(d[1], d[2], d[3], d[4]) ELSE d[4],
            d[1], d[2], d[3]),
          0)[1] :
      d \in SkillDraw \X ModelDraw \X MetricsDraw \X OutputDraw \X BOOLEAN }

RenderIdle ==
  /\ drawn = NoMeta
  /\ rendered = <<>>

RenderInputs ==
  /\ drawn \in StoredRecords
  /\ rendered = <<>>

\* changeVerbosity's call of formatResponseWithVerbosity for one level
Render(verbosity) ==
  /\ drawn # NoMeta
  /\ verbosity \notin DOMAIN rendered
  /\ rendered' = Put(rendered, verbosity, RenderFor(drawn, verbosity))
  /\ UNCHANGED <<drawn, notRender>>

RenderNext == \E verbosity \in Verbosities : Render(verbosity)

(***************************************************************************)
(* The request to the model backend: ChatSession.sendMessage pushes the    *)
(* user turn and calls orchestrate with the history array itself;          *)
(* executeClaude builds the messages array from it.                        *)
(***************************************************************************)
maxTurns == 10

\* a history restored from the session file: n entries of complete exchanges
RestoredHistory(n) ==
  [i \in 1..n |-> [role |-> IF i % 2 = 1 THEN "user" ELSE "assistant",
                  content |-> <<"restored", i>>, timestamp |-> i]]
RestoredLengths == {0, 2 * maxTurns - 2, 2 * maxTurns, 2 * maxTurns + 2}

\* a formatting that sends the whole history
formatWholeHistory(history) ==
  [i \in DOMAIN history |-> [role |-> history[i].role, content |-> history[i].content]]

\* formatConversationHistory(history): history.slice(-maxTurns * 2), mapped to
\* role and content
formatConversationHistory(history) ==
  IF history = <<>> THEN <<>>
  ELSE LET recentHistory == SubSeq(history, Max(1, Len(history) - maxTurns * 2 + 1),
                                   Len(history))
       IN [i \in DOMAIN recentHistory |->
             [role |-> recentHistory[i].role, content |-> recentHistory[i].content]]

\* executeClaude: the messages array for the prompt built from userMessage
BuildMessages(history, userMessage) ==
  formatConversationHistory(history)
    \o <<[role |-> "user", content |-> <<"clawdbotContext", "prompt", userMessage>>]>>

RequestIdle ==
  /\ hist = <<>>
  /\ outbox = <<>>
  /\ appended = 0
  /\ pending = {}

RequestInputs ==
  /\ hist \in { RestoredHistory(n) : n \in RestoredLengths }
  /\ outbox = <<>>
  /\ appended = 0
  /\ pending = {}

\* sendMessage up to the first await of orchestrate: push the user turn; with no
\* skill handler executeClaude builds the request at once, otherwise the
\* handler is awaited first
SendMessage(viaHandler) ==
  /\ appended < MaxAppends
  /\ LET message == <<"message", appended + 1>>
     IN /\ hist' = Append(hist, [role |-> "user", content |-> message,
                                 timestamp |-> Len(hist) + 1])
        /\ outbox' = IF viaHandler THEN outbox ELSE BuildMessages(hist', message)
        /\ pending' = pending \cup {[message |-> message,
                                     at |-> IF viaHandler THEN "handler" ELSE "model"]}
  /\ appended' = appended + 1
  /\ UNCHANGED notRequest

\* executeSkill's catch: the handler rejected, the fallback calls executeClaude
HandlerRejects(p) ==
  /\ p \in pending
  /\ p.at = "handler"
  /\ outbox' = BuildMessages(hist, p.message)
  /\ pending' = (pending \ {p}) \cup {[p EXCEPT !.at = "model"]}
  /\ UNCHANGED <<hist, appended, notRequest>>

\* sendMessage after `await orchestrate`: push the assistant turn
ReceiveResponse(p) ==
  /\ p \in pending
  /\ hist' = Append(hist, [role |-> "assistant", content |-> <<"response", p.message[2]>>,
                           timestamp |-> Len(hist) + 1])
  /\ pending' = pending \ {p}
  /\ UNCHANGED <<outbox, appended, notRequest>>

RequestNext ==
  \/ \E viaHandler \in BOOLEAN : SendMessage(viaHandler)
  \/ \E p \in pending : HandlerRejects(p)
  \/ \E p \in pending : ReceiveResponse(p)

(***************************************************************************)
(* metrics-collector.js, MetricsCollector: the checkpoints of one message. *)
(* null is the empty tuple, a time t is <<t>>.                             *)
(***************************************************************************)
Null == <<>>

Checkpoints ==
  {"receivedAt", "fastPathCheck", "acknowledgmentSent", "orchestratorStart",
   "orchestratorEnd", "skillDetection", "modelSelection", "promptBuilding",
   "apiCallStart", "apiCallEnd", "responseFormatStart", "responseFormatEnd",
   "responseSent"}

\* the events callers mark: the checkpoints and a name that is none of them
MarkEvents == Checkpoints \cup {"unknownEvent"}

\* JavaScript truthiness of a timing: neither null nor 0
Marked(v) == v # Null /\ v[1] # 0

\* a number from a timing in arithmetic: null counts as 0
ToNumber(v) == IF v = Null THEN 0 ELSE v[1]

\* mark(event) at time t
mark(tm, event, t) ==
  IF event \in DOMAIN tm THEN [tm EXCEPT ![event] = <<t>>] ELSE tm

\* a duration computed without looking whether both ends were marked
getDurationUnchecked(tm, startEvent, endEvent) ==
  <<ToNumber(tm[endEvent]) - ToNumber(tm[startEvent])>>

\* getDuration(startEvent, endEvent)
getDuration(tm, startEvent, endEvent) ==
  IF ~Marked(tm[startEvent]) \/ ~Marked(tm[endEvent]) THEN Null
  ELSE <<tm[endEvent][1] - tm[startEvent][1]>>

\* the segments of getBreakdown: name -> <<startEvent, endEvent>>
Segments ==
  [fastPathCheck   |-> <<"receivedAt", "fastPathCheck">>,
   acknowledgment  |-> <<"fastPathCheck", "acknowledgmentSent">>,
   preOrchestrator |-> <<"acknowledgmentSent", "orchestratorStart">>,
   skillDetection  |-> <<"orchestratorStart", "skillDetection">>,
   modelSelection  |-> <<"skillDetection", "modelSelection">>,
   promptBuilding  |-> <<"modelSelection", "promptBuilding">>,
   apiCall         |-> <<"apiCallStart", "apiCallEnd">>,
   formatting      |-> <<"responseFormatStart", "responseFormatEnd">>,
   postProcessing  |-> <<"responseFormatEnd", "responseSent">>]

\* getBreakdown() when Date.now() is t
getBreakdown(tm, t) ==
  [s \in DOMAIN Segments |-> getDuration(tm, Segments[s][1], Segments[s][2])]
  @@ [timestamps   |-> tm,
      total        |-> IF Marked(tm["responseSent"])
                         THEN <<tm["responseSent"][1] - ToNumber(tm["receivedAt"])>>
                         ELSE <<t - ToNumber(tm["receivedAt"])>>,
      orchestrator |-> IF Marked(tm["apiCallEnd"])
                         THEN <<tm["apiCallEnd"][1] - ToNumber(tm["orchestratorStart"])>>
                         ELSE Null]

\* new MetricsCollector(messageId): every timing null, then mark('receivedAt')
CollectorInit ==
  /\ clock = 1
  /\ timings = mark([c \in Checkpoints |-> Null], "receivedAt", clock)
  /\ markLog = <<<<"receivedAt", clock>>>>
  /\ breakdown = Null

\* a caller's mark(event), d milliseconds after the last call
Mark(event, d) ==
  /\ Len(markLog) <= MaxMarks
  /\ clock + d <= MaxClock
  /\ clock' = clock + d
  /\ timings' = mark(timings, event, clock')
  /\ markLog' = Append(markLog, <<event, clock'>>)
  /\ UNCHANGED <<breakdown, notCollector>>

\* a caller's getBreakdown(), d milliseconds after the last call
GetBreakdown(d) ==
  /\ clock + d <= MaxClock
  /\ clock' = clock + d
  /\ breakdown' = getBreakdown(timings, clock')
  /\ UNCHANGED <<timings, markLog, notCollector>>

Delays == {0, 1}

CollectorNext ==
  \/ \E event \in MarkEvents, d \in Delays : Mark(event, d)
  \/ \E d \in Delays : GetBreakdown(d)

CallerIdle == updateReturned = "none"

Idle == MetaInit /\ SessInit /\ DispInit /\ CallerIdle /\ CollectorInit

Init == Idle /\ RouteIdle /\ RenderIdle /\ RequestIdle

RouterInit == Idle /\ RouteInputs /\ RenderIdle /\ RequestIdle

RenderInit == Idle /\ RouteIdle /\ RenderInputs /\ RequestIdle

RequestInit == Idle /\ RouteIdle /\ RenderIdle /\ RequestInputs

Next ==
  \/ \E d \in ClockSteps : Advance(d)
  \/ \E res \in ResultChoices, md \in MetricsChoices : BotRespond(res, md)
  \/ \E r \in RetentionChoices : Store(r)
  \/ \E m \in MsgIds : Delete(m)
  \/ Clear
  \/ StoreSweep
  \/ BotSweep
  \/ \E k \in PipeIds, m \in EventIds, e \in EventEmojis : ReactStart(k, m, e)
  \/ \E k \in PipeIds, ok \in BOOLEAN : EditSettles(k, ok)
  \/ \E k \in PipeIds : VerbosityResume(k)
  \/ \E k \in PipeIds : ReactionSettles(k)
  \/ \E k \in PipeIds : LastSendSettles(k)
  \/ \E k \in PipeIds, ok \in BOOLEAN : RetryResume(k, ok)
  \/ \E k \in PipeIds, ok \in BOOLEAN : FeedbackResume(k, ok)

Spec == Init /\ [][Next]_vars

(***************************************************************************)
(* The prompt handler with the metadata store it writes to.                *)
(***************************************************************************)
PromptNext ==
  \/ \E d \in PromptClockSteps : Advance(d)
  \/ \E res \in ResultChoices, md \in MetricsChoices : BotRespond(res, md)
  \/ StoreSweep
  \/ \E c \in Chats, o \in OptionChoices, t \in TimeoutChoices : PromptUser(c, o, t)
  \/ \E m \in MsgIds : PromptUserStore(m)
  \/ \E m \in MsgIds, e \in {"YES", "NO", "REFRESH"} : HandleResponse(m, e)
  \/ \E m \in MsgIds : CancelPrompt(m)
  \/ \E c \in Chats : CancelAllForChat(c)
  \/ PromptSweep
  \/ \E k \in PipeIds, m \in MsgIds, e \in {"YES", "NO"} : ReactStart(k, m, e)
  \/ \E k \in PipeIds, ok \in BOOLEAN : FeedbackResume(k, ok)

SpecPrompt == Init /\ [][PromptNext]_vars

SessionNext ==
  \/ \E c \in SessChats : MessageArrives(c)
  \/ \E e \in exch : ExchangeDone(e)
  \/ \E c \in SessChats : ClearCommand(c)
  \/ AutoSave
  \/ \E i \in SaveIds : CopySettles(i)
  \/ \E i \in SaveIds : WriteBegins(i)
  \/ \E i \in SaveIds : WriteEnds(i)
  \/ \E i \in SaveIds : WriteFails(i)
  \/ Restart
  \/ \E readable \in BOOLEAN : InitReturns(readable)

SpecSession == Init /\ [][SessionNext]_vars

DispatchNext ==
  \/ \E skillId \in Skills, hasHandler \in BOOLEAN, codeMatch \in BOOLEAN :
       Orchestrate(skillId, hasHandler, codeMatch)
  \/ \E outcome \in HandlerOutcomes : HandlerSettles(outcome)
  \/ \E ok \in BOOLEAN : ModelSettles(ok)

SpecDispatch == Init /\ [][DispatchNext]_vars

SpecRouter == RouterInit /\ [][RouterNext]_vars

SpecRender == RenderInit /\ [][RenderNext]_vars

StoreNext ==
  \/ \E d \in ClockSteps : Advance(d)
  \/ \E r \in RetentionChoices : Store(r)
  \/ \E m \in EventIds, updates \in PartialChoices : Update(m, updates)
  \/ \E m \in MsgIds : Delete(m)
  \/ Clear
  \/ StoreSweep
  \/ BotSweep

SpecStore == Init /\ [][StoreNext]_vars

ActionsNext ==
  \/ \E d \in ClockSteps : Advance(d)
  \/ \E res \in ResultChoices, md \in MetricsChoices : BotRespond(res, md)
  \/ \E r \in RetentionChoices : Store(r)
  \/ \E m \in MsgIds : Delete(m)
  \/ StoreSweep
  \/ \E k \in PipeIds, m \in EventIds, e \in ActionEmojis \cup {"NONE"} :
       ReactStart(k, m, e)
  \/ ReactNull
  \/ \E k \in PipeIds : LastSendSettles(k)
  \/ \E k \in PipeIds, ok \in BOOLEAN : RetryResume(k, ok)
  \/ \E k \in PipeIds, ok \in BOOLEAN : FeedbackResume(k, ok)

SpecActions == Init /\ [][ActionsNext]_vars

(***************************************************************************)
(* The running bot with its clock: messages, answers, the auto-save timer  *)
(* and the steps of its saves.  The timers fire, the writes settle, the    *)
(* answers come back and time passes.                                      *)
(***************************************************************************)
RunningNext ==
  \/ \E d \in ClockSteps : Advance(d)
  \/ \E c \in SessChats : MessageArrives(c)
  \/ \E e \in exch : ExchangeDone(e)
  \/ AutoSave
  \/ \E i \in SaveIds : CopySettles(i)
  \/ \E i \in SaveIds : WriteBegins(i)
  \/ \E i \in SaveIds : WriteEnds(i)
  \/ \E i \in SaveIds : WriteFails(i)

RunningFairness ==
  /\ WF_vars(\E d \in ClockSteps : Advance(d))
  /\ WF_vars(\E e \in exch : ExchangeDone(e))
  /\ WF_vars(AutoSave)
  /\ WF_vars(\E i \in SaveIds : CopySettles(i))
  /\ WF_vars(\E i \in SaveIds : WriteBegins(i))
  /\ WF_vars(\E i \in SaveIds : WriteEnds(i))

SpecRunning == Init /\ [][RunningNext]_vars /\ RunningFairness

(***************************************************************************)
(* The session store while the bot runs and sessions are removed: messages *)
(* and /clear commands arrive a bounded number of times, removals empty    *)
(* the table, the timer fires and every file write succeeds.               *)
(***************************************************************************)
\* part_004 clearAllSessions: sessionsCache.clear(), no save
ClearAllSessions ==
  /\ Polling(phase)
  /\ DOMAIN sessionsCache # {}
  /\ sessionsCache' = <<>>
  /\ UNCHANGED <<userSessions, exch, nextExch, primaryFile, backupFile, saves, savesDone,
                 restarts, expected, restored, replies, lifeVars, notSess, lastActive>>

\* /clear sent by a chat that has a stored session
ClearStored(c) == Num(c) \in DOMAIN sessionsCache /\ ClearCommand(c)

PersistNext ==
  \/ \E c \in SessChats : MessageArrives(c)
  \/ \E e \in exch : ExchangeDone(e)
  \/ \E c \in SessChats : ClearStored(c)
  \/ ClearAllSessions
  \/ AutoSave
  \/ \E i \in SaveIds : CopySettles(i)
  \/ \E i \in SaveIds : WriteBegins(i)
  \/ \E i \in SaveIds : WriteEnds(i)

\* the timer keeps firing, answers come back, file operations settle
PersistFairness ==
  /\ WF_vars(\E e \in exch : ExchangeDone(e))
  /\ WF_vars(AutoSave)
  /\ WF_vars(\E i \in SaveIds : CopySettles(i))
  /\ WF_vars(\E i \in SaveIds : WriteBegins(i))
  /\ WF_vars(\E i \in SaveIds : WriteEnds(i))

SpecPersist == Init /\ [][PersistNext]_vars /\ PersistFairness

SpecCollector == Init /\ [][CollectorNext]_vars

SpecRequest == RequestInit /\ [][RequestNext]_vars

(***************************************************************************)
(* Properties.                                                             *)
(***************************************************************************)
Expired(m) == window[m].set /\ now > window[m].t0 + window[m].retention
WithinWindow(m) == window[m].set /\ now <= window[m].t0 + window[m].retention

\* the store after changeVerbosity has handled the symbol e for message m
AfterVerbosityChange(msgs, m, e) ==
  update(msgs, m, VerbosityUpdates(getVerbosityFromEmoji(e),
                                   RenderFor(msgs[m], getVerbosityFromEmoji(e))))

\* two pipelines that have both edited and updated for the same event
SameEventTwice(k1, k2) ==
  /\ k1 # k2
  /\ pipes[k1].pc = "await_reaction"
  /\ pipes[k2].pc = "await_reaction"
  /\ pipes[k1].msg = pipes[k2].msg
  /\ pipes[k1].emoji = pipes[k2].emoji

\* C1: handling the same verbosity-change event twice leaves the same stored
\* verbosity and the same edited text as handling it once: two pipelines that
\* handled the same event issued the same text and left the same verbosity,
\* and on every stored record a second changeVerbosity renders the text of
\* the first and leaves the store as the first left it.
C1_VerbosityChangeIdempotent ==
  /\ \A k1, k2 \in PipeIds :
       SameEventTwice(k1, k2) =>
         /\ pipes[k1].text = pipes[k2].text
         /\ pipes[k1].verbAfter \in {getVerbosityFromEmoji(pipes[k1].emoji), "absent"}
         /\ pipes[k2].verbAfter \in {getVerbosityFromEmoji(pipes[k2].emoji), "absent"}
  /\ \A m \in DOMAIN messages, e \in VerbosityEmojis :
       LET once == AfterVerbosityChange(messages, m, e)
       IN /\ RenderFor(once[m], getVerbosityFromEmoji(e))
               = RenderFor(messages[m], getVerbosityFromEmoji(e))
          /\ AfterVerbosityChange(once, m, e) = once

\* C1 witness: the same event was handled twice and both updates found the record
C1_Witness ==
  \E k1, k2 \in PipeIds :
    /\ SameEventTwice(k1, k2)
    /\ pipes[k1].verbAfter # "absent"
    /\ pipes[k2].verbAfter # "absent"
    /\ display[pipes[k1].msg] = pipes[k1].text

\* C2: once the clock has passed a record's expiry, get returns absent in every
\* later state, whatever get, update or cleanup did in between (an update by a
\* pipeline suspended across the expiry included); and once get returns absent
\* for a stored id, no step makes it return a record again.
C2_ExpiredStaysAbsent ==
  /\ [](\A m \in MsgIds : Expired(m) => get(messages, m, now) = NoMeta)
  /\ [][\A m \in MsgIds :
          (window[m].set /\ get(messages, m, now) = NoMeta)
            => get(messages', m, now') = NoMeta]_vars

\* C2 witness: the clock is past the expiry of a record that is still in the map
\* and that a pipeline suspended across the expiry has updated
C2_Witness ==
  \E m \in MsgIds, k \in PipeIds :
    /\ Expired(m)
    /\ m \in DOMAIN messages
    /\ pipes[k].msg = m
    /\ pipes[k].pc = "await_reaction"
    /\ pipes[k].verbAfter = messages[m].verbosity
    /\ messages[m].verbosity # "medium"

\* C3: after store(id, record) at t0, every get(id) within the record's retention
\* window returns the record, whatever sweeps ran, as long as the id was not
\* deleted or cleared.
C3_PresentWithinWindow ==
  \A m \in MsgIds : WithinWindow(m) => get(messages, m, now) # NoMeta

\* C8: when the store has no active record for the event's message id,
\* handleReaction returns without reaching any platform call (no send, no
\* edit, no set-reaction) and leaves every active record as it was, for every
\* symbol.
C8_NoRecordNoEffect ==
  /\ \A m \in EventIds, e \in Emojis :
       ~Active(m) =>
         /\ handleReaction(messages, now, m, e) = IdlePipe
         /\ \A x \in DOMAIN messages :
              Active(x) =>
                /\ x \in DOMAIN handleReactionStore(messages, now, m, e)
                /\ handleReactionStore(messages, now, m, e)[x] = messages[x]
  /\ (last.handled /\ ~last.found) => ~last.called

\* C8 witness: an event for an id without an active record has been handled
\* while another record was active
C8_Witness ==
  /\ last.handled
  /\ ~last.found
  /\ \E x \in MsgIds : Active(x)

\* C6: no message id has both an active record in the metadata store and an
\* entry in the pending-prompt table.
C6_NeverBoth ==
  \A m \in MsgIds : ~(Active(m) /\ m \in DOMAIN pendingPrompts)

C4_RestoredAsSaved ==
  \A c \in SessChats :
    (restored[c].set /\ expected[c].set) =>
      /\ restored[c].history = expected[c].history
      /\ restored[c].turnCount = expected[c].turnCount

\* C5: once one save has completed, the primary file or the backup file holds
\* a complete session table at every later instant.
C5_OneCompleteCopy ==
  savesDone >= 1 => (primaryFile.state = "complete" \/ backupFile.state = "complete")

\* the dispatcher was in one of the three cases that call for the fallback
FallbackCase(c) ==
  /\ c.skill # "general"
  /\ \/ ~c.hasHandler
     \/ c.handlerOutcome \in {"throws", "failure"}

\* C9: when the skill has no handler, or the handler throws, or the handler
\* returns a failure result, executeSkill invokes executeClaude with the built
\* prompt.
C9_FallbackToModel ==
  (call.pc = "done" /\ FallbackCase(call)) =>
     /\ call.modelCalls >= 1
     /\ call.prompt = buildSkillPrompt(call.skill)

\* does the value orchestrate returned carry an error
CarriesError(result) ==
  \/ Has(result, "error")
  \/ /\ Has(result, "result")
     /\ \/ Has(result.result, "error")
        \/ Has(result.result, "fallback") /\ Has(result.result.fallback, "error")
        \/ Has(result.result, "result") /\ Has(result.result.result, "error")

\* C10: one orchestrate call invokes the model backend at most once; after a
\* failed model invocation nothing more is invoked and the result returned
\* carries the error.
C10_ModelCalledAtMostOnce ==
  /\ call.modelCalls <= 1
  /\ call.afterFailure = 0
  /\ (call.modelFailed => call.pc = "done" /\ CarriesError(call.result))

\* C10 witness: the handler threw, the fallback model call failed, and
\* orchestrate has returned
C10_Witness ==
  /\ call.pc = "done"
  /\ call.modelFailed
  /\ call.via = "fallback"
  /\ call.handlerCalls = 1

\* C11: a failed saveSessions is only logged: the operation that started it
\* completes normally (the /clear handler sends its confirmation) and no error
\* reaches the request path.
C11_SaveFailureOnlyLogged ==
  \A c \in SessChats : replies[c] # "error"

\* C12: init never fails: when the session file is absent, unreadable or not
\* valid JSON the in-memory table is empty, init returns 0, and the bot goes on
\* to start polling.
C12_InitNeverFails ==
  /\ [](phase # "exited")
  /\ [][(phase = "loading" /\ phase' # "loading") =>
          /\ phase' = "polling"
          /\ lastInit'.done
          /\ lastInit'.met # "loaded" => (sessionsCache' = <<>> /\ lastInit'.count = 0)]_vars

\* C12 witness: init met an unreadable session file that holds a saved table, and
\* the bot is polling with an empty table
C12_Witness ==
  /\ lastInit.done
  /\ lastInit.met = "unreadable"
  /\ lastInit.count = 0
  /\ primaryFile.state = "complete"
  /\ DOMAIN primaryFile.table # {}
  /\ phase = "polling"
  /\ sessionsCache = <<>>

\* C13: no inbound message or command is processed before the session store
\* has finished loading: while init is awaited no session exists, no exchange
\* is under way, no /clear is being handled and no save has been started.
C13_NothingBeforeLoaded ==
  phase = "loading" =>
    /\ userSessions = <<>>
    /\ exch = {}
    /\ \A c \in SessChats : replies[c] = "none"
    /\ \A i \in SaveIds : saves[i] = IdleSave

\* C13 witness: after a restart the table was loaded from the file and a message
\* was then processed with the session the file held
C13_Witness ==
  /\ phase = "polling"
  /\ lastInit.done
  /\ lastInit.met = "loaded"
  /\ \E c \in SessChats : restored[c].set /\ expected[c].set

\* the score of the skill registered at position i, for the text
ScoreAt(i) == scores(toLowerCase(text))[i]

\* position of a skill in the table
PositionOf(id) == CHOOSE i \in DOMAIN skills : skills[i].id = id

\* C14: detectSkill returns the skill with the highest cumulative keyword
\* score, the earliest registered among ties, with that score as confidence;
\* when every score is zero it returns 'general' with confidence 0; the result
\* is a function of the text alone.
C14_HighestScoreEarliestWins ==
  /\ routed.done =>
       /\ [skill |-> routed.skill, confidence |-> routed.confidence] = detectSkill(Message)
       /\ IF \A i \in DOMAIN skills : ScoreAt(i) = 0
            THEN routed.skill = "general" /\ routed.confidence = 0
            ELSE \E i \in DOMAIN skills :
                   /\ routed.skill = skills[i].id
                   /\ routed.confidence = ScoreAt(i)
                   /\ \A j \in DOMAIN skills : ScoreAt(j) <= ScoreAt(i)
                   /\ \A j \in 1..(i - 1) : ScoreAt(j) < ScoreAt(i)
  /\ \A p \in PadChoices : detectSkill([chars |-> text, padding |-> p]) = detectSkill(Message)

\* C14 witness: two skills tie at the highest score and the earlier one was returned
C14_Witness ==
  /\ routed.done
  /\ \E i, j \in DOMAIN skills :
       /\ i < j
       /\ ScoreAt(i) = ScoreAt(j)
       /\ ScoreAt(i) > 0
       /\ \A k \in DOMAIN skills : ScoreAt(k) <= ScoreAt(i)
       /\ routed.skill = skills[i].id

\* C15: with the override 'fast' chooseModel returns the fast tier and with
\* 'smart' the deep tier, whatever the text; otherwise it returns the deep tier
\* exactly when the complexity score is at least the threshold.
C15_OverrideThenThreshold ==
  routed.done =>
    LET context == routed.context
        override == IF Has(context, "forceModel") THEN context.forceModel ELSE "undefined"
    IN /\ override = "fast" => routed.model = models.fast
       /\ override = "smart" => routed.model = models.smart
       /\ override \notin {"fast", "smart"} =>
            /\ routed.model \in {models.fast, models.smart}
            /\ routed.model = models.smart
                 <=> analyzeTaskComplexity(Message, context) >= threshold

\* C15 witness: the override 'fast' gave the fast tier to a text that scores at
\* least the threshold
C15_Witness ==
  /\ routed.done
  /\ Has(routed.context, "forceModel")
  /\ routed.context.forceModel = "fast"
  /\ analyzeTaskComplexity(Message, routed.context) >= threshold
  /\ routed.model = models.fast

\* the high-weight indicator phrases among the words a text is composed of
IndicatorWords ==
  { w \in Vocabulary :
      \/ \E i \in DOMAIN HighIndicators : toLowerCase(w) \in HighIndicators[i].phrases
      \/ \E i \in DOMAIN CodeIndicators : toLowerCase(w) \in CodeIndicators[i].phrases }

\* C16: at the same conversation depth, adding a high-weight indicator phrase
\* to a text never decreases the score analyzeTaskComplexity returns.
C16_IndicatorsNeverDecrease ==
  [][\A w \in IndicatorWords, context \in Contexts :
       (text # <<>> /\ text' = text \o <<" ">> \o w /\ padding' = padding) =>
         analyzeTaskComplexity([chars |-> text', padding |-> padding'], context)
           >= analyzeTaskComplexity(Message, context)]_vars

\* C16 witness: a text with two indicator phrases of different groups, the
\* second added to the first, scores more than the first alone
C16_Witness ==
  \E w1, w2 \in IndicatorWords :
    /\ text = w1 \o <<" ">> \o w2
    /\ \A context \in Contexts :
         analyzeTaskComplexity(Message, context)
           > analyzeTaskComplexity([chars |-> w1, padding |-> padding], context)

\* does the text contain the three phrases of a review request
IsReviewRequest ==
  LET lower == toLowerCase(text)
  IN /\ includes(lower, <<"r", "e", "v", "i", "e", "w">>)
     /\ includes(lower, <<"p", "u", "l", "l", " ", "r", "e", "q", "u", "e", "s", "t">>)
     /\ includes(lower, <<"a", "r", "c", "h", "i", "t", "e", "c", "t", "u", "r", "e">>)

NoOverride(context) ==
  ~Has(context, "forceModel") \/ context.forceModel \notin {"fast", "smart"}

\* C17 as stated: every text that contains "review", "pull request" and
\* "architecture" is classified 'pr-review' and, with no override, given the
\* deep tier.
C17_ReviewRequestAlwaysPrReview ==
  (routed.done /\ IsReviewRequest) =>
    /\ routed.skill = "pr-review"
    /\ NoOverride(routed.context) => routed.model = models.smart

\* C17: every text that contains "review", "pull request" and "architecture"
\* is, with no override, given the deep tier; it is classified 'pr-review'
\* exactly when no skill registered earlier scores as much as 'pr-review' and
\* no skill registered later scores more.
C17_ReviewRequestUnlessOutscored ==
  (routed.done /\ IsReviewRequest) =>
    /\ NoOverride(routed.context) => routed.model = models.smart
    /\ routed.skill = "pr-review" <=>
         /\ \A j \in 1..(PositionOf("pr-review") - 1) :
              ScoreAt(j) < ScoreAt(PositionOf("pr-review"))
         /\ \A j \in DOMAIN skills : ScoreAt(j) <= ScoreAt(PositionOf("pr-review"))

\* C17 witness: a review request with nothing else in it was classified
\* 'pr-review' and given the deep tier
C17_Witness ==
  /\ routed.done
  /\ text = ReviewRequest
  /\ NoOverride(routed.context)
  /\ routed.skill = "pr-review"
  /\ routed.model = models.smart

\* C18: for every stored record, whichever of skill, model and metrics it
\* holds, the content formatResponseWithVerbosity renders is no longer at
\* minimal than at medium, and no longer at medium than at full.
C18_LengthGrowsWithVerbosity ==
  /\ {"minimal", "medium"} \subseteq DOMAIN rendered =>
       TextLength(rendered["minimal"]) <= TextLength(rendered["medium"])
  /\ {"medium", "full"} \subseteq DOMAIN rendered =>
       TextLength(rendered["medium"]) <= TextLength(rendered["full"])

\* C18 witness: a record with a model and metrics but no skill (the full level
\* has no header for it, the medium level has) was rendered at the three levels
C18_Witness ==
  /\ DOMAIN rendered = Verbosities
  /\ Truthy(drawn.model)
  /\ ~Truthy(drawn.skill)
  /\ drawn.metrics.present
  /\ TextLength(rendered["minimal"]) < TextLength(rendered["medium"])
  /\ TextLength(rendered["medium"]) < TextLength(rendered["full"])

\* is the record of message m as the message handler stored it
AsStored(m) ==
  /\ m \in DOMAIN messages
  /\ messages[m].type = "bot-response"
  /\ messages[m].verbosity = "medium"
  /\ ~Has(messages[m], "originalResponse")
  /\ display[m] = messages[m].responseText

\* C19: for a bot-response record as the message handler stores it, a
\* minimal-symbol event edits the message to content strictly shorter than
\* the content displayed before the event.
C19_MinimalShortens ==
  \A k \in PipeIds :
    (pipes[k].pc = "await_edit" /\ pipes[k].emoji = "MINIMAL" /\ AsStored(pipes[k].msg)) =>
      TextLength(pipes[k].text) < TextLength(display[pipes[k].msg])

Carried(msgs) == SubSeq(msgs, 1, Len(msgs) - 1)

\* C21: every request sent to the model backend carries at most the 20 most
\* recent history entries of the session, in their original order, however long
\* the history has grown.
C21_AtMostTwentyRecent ==
  /\ [](outbox # <<>> => Len(Carried(outbox)) <= 2 * maxTurns)
  /\ [][outbox' # outbox =>
          LET carried == Carried(outbox')
              n == Len(hist')
              k == Len(carried)
          IN /\ k = IF n < 2 * maxTurns THEN n ELSE 2 * maxTurns
             /\ \A i \in 1..k :
                  /\ carried[i].role = hist'[n - k + i].role
                  /\ carried[i].content = hist'[n - k + i].content]_vars

\* C21 witness: a request was built from a history of more than 20 entries and
\* carries 20 of them
C21_Witness ==
  /\ outbox # <<>>
  /\ Cardinality(pending) = 1
  /\ Len(hist) > 2 * maxTurns + 2
  /\ Len(Carried(outbox)) = 2 * maxTurns
  /\ outbox[2 * maxTurns].content = hist[Len(hist)].content

\* C30: the messages array sent to the model backend is strictly alternating
\* user/assistant history followed by exactly one final user message for the
\* current request: no two consecutive entries have the same role and the
\* current request appears once.
C30_AlternatingThenOneRequest ==
  outbox # <<>> =>
    /\ \A i \in 1..(Len(outbox) - 1) : outbox[i].role # outbox[i + 1].role
    /\ outbox[Len(outbox)].role = "user"
    /\ LET message == outbox[Len(outbox)].content[3]
       IN \A i \in 1..(Len(outbox) - 1) : outbox[i].content # message

\* a history made of (user, assistant) pairs, each answer directly after its request
PairedHistory(history) ==
  /\ Len(history) % 2 = 0
  /\ \A i \in 1..Len(history) :
       i % 2 = 1 => /\ history[i][1] = "user"
                    /\ history[i + 1] = <<"assistant", history[i][2]>>

\* C29: an exchange appends its user turn and its assistant turn as adjacent
\* entries, overlapping exchanges of one user in completion order: with no
\* exchange in flight (and no restart or /clear before) the history of every
\* session is a sequence of (user, assistant) pairs.
C29_PairsInCompletionOrder ==
  (exch = {} /\ restarts = 0 /\ \A c \in SessChats : replies[c] = "none") =>
    \A c \in DOMAIN userSessions : PairedHistory(userSessions[c].history)

\* the olderThanMs arguments a sweep is run with (0: none given)
SweepAges == {0, 1, BotCleanupAgeMs, 2 * BotCleanupAgeMs + 1}

\* C22: immediately after any run of the store's sweep, with any olderThanMs or
\* none, the store holds no record whose expiry time has passed, whether or not
\* a get was performed on it.
C22_SweepLeavesNoExpired ==
  /\ [](\A age \in SweepAges :
          LET swept == cleanup(messages, age, now)
          IN \A id \in DOMAIN swept : now <= swept[id].expiresAt)
  /\ [][(StoreSweep \/ BotSweep) =>
          \A id \in DOMAIN messages' : now' <= messages'[id].expiresAt]_vars

\* C22 witness: a stored record passed its expiry and is gone although no
\* reaction event (hence no get) was ever handled: a sweep removed it
C22_Witness ==
  \E m \in MsgIds :
    /\ Expired(m)
    /\ m \notin DOMAIN messages
    /\ last = NoSummary
    /\ \A k \in PipeIds : pipes[k] = IdlePipe

Timestamps == {"createdAt", "expiresAt"}

\* C23: update(id, partial) on an existing record changes only the fields named
\* in partial and never createdAt and expiresAt, even when partial contains
\* them; on an absent id it returns false and leaves the store unchanged.
C23_UpdateMergesKeepingTimes ==
  [][\A m \in EventIds, updates \in PartialChoices :
       Update(m, updates) =>
         IF m \in DOMAIN messages
           THEN /\ updateReturned' = "true"
                /\ DOMAIN messages' = DOMAIN messages
                /\ \A id \in DOMAIN messages \ {m} : messages'[id] = messages[id]
                /\ DOMAIN messages'[m] = DOMAIN messages[m] \cup DOMAIN updates
                /\ \A key \in Timestamps : messages'[m][key] = messages[m][key]
                /\ \A key \in DOMAIN messages[m] \ DOMAIN updates :
                     messages'[m][key] = messages[m][key]
                /\ \A key \in DOMAIN updates \ Timestamps :
                     messages'[m][key] = updates[key]
           ELSE /\ updateReturned' = "false"
                /\ messages' = messages]_vars

\* C23 witness: a record took the fields of a partial that carried createdAt and
\* expiresAt and still has the times it was stored with
C23_Witness ==
  \E m \in DOMAIN messages :
    /\ updateReturned = "true"
    /\ Has(messages[m], "note")
    /\ messages[m].note = "stamped"
    /\ messages[m].createdAt = window[m].t0
    /\ messages[m].expiresAt = window[m].t0 + window[m].retention

\* the time of the latest mark(event) call made so far, Null when there is none
LatestMark(event) ==
  LET marks == { i \in DOMAIN markLog : markLog[i][1] = event }
  IN IF marks = {} THEN Null
     ELSE <<markLog[CHOOSE i \in marks : \A j \in marks : j <= i][2]>>

\* b is the breakdown the marks made so far call for when Date.now() is t
BreakdownOfMarks(b, t) ==
  /\ b # Null
  /\ \A s \in DOMAIN Segments :
       LET from == LatestMark(Segments[s][1])
           to == LatestMark(Segments[s][2])
       IN b[s] = IF from # Null /\ to # Null THEN <<to[1] - from[1]>> ELSE Null
  /\ b.total = IF LatestMark("responseSent") # Null
                 THEN <<LatestMark("responseSent")[1] - LatestMark("receivedAt")[1]>>
                 ELSE <<t - LatestMark("receivedAt")[1]>>

\* C24: getBreakdown returns a breakdown for any subset of checkpoints reached:
\* a segment has a duration exactly when both of its checkpoints were marked
\* (null otherwise), computed from the latest mark of each, and total is
\* responseSent minus receivedAt when responseSent was marked, else now minus
\* receivedAt.
C24_BreakdownOfMarkedCheckpoints ==
  /\ [] BreakdownOfMarks(getBreakdown(timings, clock), clock)
  /\ [][\A d \in Delays : GetBreakdown(d) => BreakdownOfMarks(breakdown', clock')]_vars

\* C24 witness: a breakdown was returned after fastPathCheck was marked twice at
\* different times; its first segment runs to the later mark, a segment with an
\* unmarked checkpoint is null and the total runs to now
C24_Witness ==
  /\ breakdown # Null
  /\ markLog = <<<<"receivedAt", 1>>, <<"fastPathCheck", 2>>, <<"fastPathCheck", 3>>>>
  /\ breakdown.fastPathCheck = <<2>>
  /\ breakdown.acknowledgment = Null
  /\ breakdown.total = <<2>>

\* C27: a positive or negative feedback event handled for a message whose
\* record is found ends with the feedback value recorded on the stored record,
\* also when the acknowledgment send fails.
C27_FeedbackRecordedEvenIfAckFails ==
  [][\A k \in PipeIds :
       (/\ pipes[k].pc = "await_feedback_send"
        /\ pipes'[k] = IdlePipe
        /\ pipes[k].msg \in DOMAIN messages') =>
         /\ Has(messages'[pipes[k].msg], "userFeedback")
         /\ messages'[pipes[k].msg].userFeedback = pipes[k].emoji]_vars

\* C25: a retry-with-deep-tier event on a record whose tier is already the deep
\* tier only informs the user and leaves the record unchanged; on any other
\* record it sets the pending-retry flag on the record; in neither case is the
\* dispatcher or the model backend invoked or the original message edited.
C25_RetryFlagsUnlessDeep ==
  [][\A k \in PipeIds :
       LET m == pipes[k].msg
       IN (/\ pipes[k].emoji = "RETRY_SMART"
           /\ pipes'[k] # pipes[k]
           /\ m \in DOMAIN messages
           /\ m \in DOMAIN messages') =>
            /\ display' = display
            /\ dispVars' = dispVars
            /\ AlreadySmart(messages[m]) =>
                 /\ pipes[k].sends = 1
                 /\ pipes'[k] = IdlePipe
                 /\ messages'[m] = messages[m]
            /\ (~AlreadySmart(messages[m]) /\ pipes'[k] = IdlePipe) =>
                 /\ Has(messages'[m], "pendingRetry")
                 /\ messages'[m].pendingRetry]_vars

ShowEmojis == {"EXPLAIN", "METRICS"}

\* C26: an explain event and a show-metrics event each send exactly one new
\* message and change neither the content of the original message nor any field
\* of the stored record.
C26_ExplainAndMetricsOnlySend ==
  [][\A k \in PipeIds :
       /\ (pipes[k] = IdlePipe /\ pipes'[k].emoji \in ShowEmojis) =>
            /\ pipes'[k].pc = "await_last_send"
            /\ pipes'[k].sends = 1
            /\ messages' = messages
            /\ display' = display
       /\ (pipes[k].emoji \in ShowEmojis /\ pipes'[k] # pipes[k]) =>
            /\ pipes'[k] = IdlePipe
            /\ pipes[k].sends = 1
            /\ messages' = messages
            /\ display' = display]_vars

\* C26 witness: a show-metrics event for a stored message has sent its one
\* message, and another pipeline an explain event's
C26_Witness ==
  \E k, j \in PipeIds :
    /\ pipes[k].emoji = "METRICS"
    /\ pipes[j].emoji = "EXPLAIN"
    /\ pipes[k].pc = "await_last_send" /\ pipes[j].pc = "await_last_send"
    /\ pipes[k].sends = 1 /\ pipes[j].sends = 1
    /\ pipes[k].msg \in DOMAIN messages
    /\ display[pipes[k].msg] # <<>>

\* the session of chat c is in the table and was last active more than the
\* retention period ago
Inactive(c) ==
  /\ Num(c) \in DOMAIN sessionsCache
  /\ now - lastActive[c] > SessionRetentionMs

\* C28: a session that stays inactive for longer than the retention period
\* (1 hour) is eventually removed from the session table by the running bot
\* without any user action.
C28_InactiveSessionRemoved ==
  \A c \in SessChats : Inactive(c) ~> (Num(c) \notin DOMAIN sessionsCache)

\* C31: when a skill handler throws and the fallback model invocation then
\* succeeds, the response shown to the user and the assistant turn recorded in
\* the history carry the fallback model output, and no error message is shown.
C31_HandlerErrorDowngraded ==
  (call.pc = "done" /\ call.handlerOutcome = "throws" /\ ~call.modelFailed) =>
     /\ ResultBody(call.result) = <<"output", <<"answer", call.prompt>>>>
     /\ HistoryText(call.result) = <<"answer", call.prompt>>

\* C39: orchestrate returns success: true only when the result it carries is
\* not an error result; when the final model invocation failed the returned
\* object is flagged unsuccessful and carries the error.
C39_SuccessOnlyWithoutError ==
  call.pc = "done" =>
     /\ call.result.success => ~CarriesError(call.result)
     /\ call.modelFailed => (~call.result.success /\ CarriesError(call.result))

\* C38: the rationale orchestrate attaches to a result agrees with the tier
\* chooseModel selected for the same request: it gives the deep-analysis reason
\* exactly when the deep tier was chosen, and its complexity is the score
\* chooseModel used, also when conversation depth or an override took part.
C38_RationaleAgreesWithTier ==
  routed.done =>
     /\ (routed.modelExplanation.reason = "Task requires deep analysis and reasoning")
          <=> (routed.model = models.smart)
     /\ routed.modelExplanation.complexity = analyzeTaskComplexity(Message, routed.context)

\* C32: handleReaction never throws or rejects: for a null event, an event with
\* missing fields or a non-emoji new value, for missing metadata and for any
\* failure of a platform call it completes normally.
C32_HandleReactionNeverRejects ==
  last.handled => ~last.rejected

\* is a reaction pipeline in flight for message m
InFlight(m) == \E k \in PipeIds : pipes[k].pc # "idle" /\ pipes[k].msg = m

\* C33: whenever no reaction pipeline is in flight for a message, the verbosity
\* stored in its record equals the level at which the displayed content was
\* last rendered: from creation, after a failed edit, and after overlapping
\* verbosity events.
C33_StoredVerbosityIsDisplayed ==
  \A m \in DOMAIN messages :
    (~InFlight(m) /\ Has(messages[m], "verbosity")) =>
       messages[m].verbosity = window[m].level

\* the turns of a history as a set
Turns(history) == { history[i] : i \in 1..Len(history) }

\* C34: for a session that started empty, whenever none of its exchanges is in
\* flight the history length is twice turnCount, also when /clear ran while an
\* exchange was in flight; the history then holds no turn of an exchange that
\* began before the clear, so no assistant turn stands without its user turn.
C34_HistoryIsTwiceTurnCount ==
  \A c \in DOMAIN userSessions :
    ( /\ \A e \in exch : e.chat # c
      /\ restored[c].set /\ restored[c].history = <<>> /\ restored[c].turnCount = 0 ) =>
       /\ Len(userSessions[c].history) = 2 * userSessions[c].turnCount
       /\ \A t \in Turns(userSessions[c].history) :
            t[1] = "assistant" => <<"user", t[2]>> \in Turns(userSessions[c].history)

\* C35: the table a save serializes for writing holds, for each session, a
\* history and a turnCount set together by one setSession call: it contains no
\* user turn of an exchange that is in flight when the save serializes.
C35_SnapshotWithoutInFlightTurn ==
  [][ \A i \in SaveIds : CopySettles(i) =>
        \A name \in DOMAIN saves'[i].json : \A e \in exch :
          <<"user", e.id>> \notin Turns(saves'[i].json[name].history) ]_vars

\* a save is between its start and its return
Saving == \E i \in SaveIds : saves[i].pc # "idle"

\* C36: when the process stops during a save that follows a completed save,
\* the table init yields from the files it finds at the restart is the table
\* of a completed save, never the empty table of a failed load: with the
\* table of a completed save in the backup file, init yields that table or the
\* one the primary file holds complete.
C36_CrashRestoresCompletedSave ==
  [][ (Restart /\ Saving /\ savesDone >= 1 /\ backupFile.state = "complete") =>
        \E file \in {primaryFile', backupFile'} :
          /\ file.state = "complete"
          /\ init(primaryFile', TRUE).cache = loadSessions(file, TRUE).cache ]_vars

\* the table a restart would load from the session file is the table in memory
Synced ==
  /\ primaryFile.state # "partial"
  /\ primaryFile.table = Serialize(sessionsCache, userSessions)

\* C37: once the mutations have stopped and the writes succeed, the session
\* file comes to equal the session table in memory under a fair auto-save
\* timer, also when the last session was removed.
C37_FileCatchesUpWithTable ==
  []<>Synced

====
